---- MODULE Spec2Model ----
(***************************************************************************)
(* A model of the Assembler+ toolchain: pseudocode -> IR -> ARM64 tokens   *)
(* -> two-pass assembler -> little-endian machine code.                    *)
(*                                                                         *)
(* Strings are TLA+ strings (TLC gives them Len, SubSeq and \o), so every  *)
(* lexer, parser and number conversion works on the characters of its      *)
(* input.  TLC's integers are 32-bit: a C++ int is a TLC integer, while a  *)
(* uint32_t word and a uint64_t address are bit vectors (functions from    *)
(* the bit position to 0 or 1) wherever their top bits can be set.         *)
(***************************************************************************)
EXTENDS Integers, Sequences, FiniteSets, TLC

VARIABLES
    mode,      \* main: TOKENIZED, RAW or HIGH; ENCODE / OFFSET for the unit specifications
    input,     \* the lines of the input stream (text), or the token vector in TOKENIZED mode
    dumpIRFlag,\* main: --dump-ir
    stage,     \* position of main / Assembler::assemble
    ir,        \* std::vector<IRInstruction> of HighLevelParser::parse
    tokens,    \* std::vector<Token> given to Assembler::assemble
    lines,     \* Assembler::groupLines result
    li,        \* index of the next line of the running pass (1-based)
    pc,        \* the pass's uint64_t pc
    table_,    \* SymbolTable::table_  (name -> address)
    order_,    \* SymbolTable::order_
    out,       \* bytes written to std::cout
    diag,      \* lines written to std::cerr
    exit,      \* process exit status, -1 while running
    trace,     \* history: what pass 1 and pass 2 did at each statement
    call,      \* unit specifications: the arguments of the function under test
    ret        \* unit specifications: its result

vars == <<mode, input, dumpIRFlag, stage, ir, tokens, lines, li, pc, table_, order_,
          out, diag, exit, trace, call, ret>>

(***************************************************************************)
(* Characters                                                              *)
(***************************************************************************)
\* s[i - 1] as a one-character string; "" (no character) past the end
Ch(s, i) == IF 1 <= i /\ i <= Len(s) THEN SubSeq(s, i, i) ELSE ""


\* std::isdigit
isdigit(c) == c \in {"0", "1", "2", "3", "4", "5", "6", "7", "8", "9"}

\* std::isspace in the "C" locale: space, \t, \n, \v (written as the character
\* itself, TLA+ has no escape for it), \f, \r
isspace(c) == c \in {" ", "\t", "\n", "", "\f", "\r"}

DigitChars == "0123456789abcdefghijklmnopqrstuvwxyz"
UpperChars == "0123456789ABCDEFGHIJKLMNOPQRSTUVWXYZ"

\* value of a digit character in bases up to 36, or 99 when it is none
DigitVal(c) ==
    IF \E i \in 1..36 : Ch(DigitChars, i) = c \/ Ch(UpperChars, i) = c
    THEN (CHOOSE i \in 1..36 : Ch(DigitChars, i) = c \/ Ch(UpperChars, i) = c) - 1
    ELSE 99

INT_MAX == 2147483647

RECURSIVE SkipSpace(_, _)
SkipSpace(s, i) ==
    IF i <= Len(s) /\ isspace(Ch(s, i)) THEN SkipSpace(s, i + 1) ELSE i

\* strtol's digit loop.  acc holds the digits read so far as a negated value, so
\* that INT_MIN is reachable; any tells whether a digit was read.
RECURSIVE StoiDigits(_, _, _, _, _, _)
StoiDigits(s, i, base, acc, any, neg) ==
    IF i <= Len(s) /\ DigitVal(Ch(s, i)) < base
    THEN LET d == DigitVal(Ch(s, i))
         IN  IF acc < ((-INT_MAX - 1) + d) \div base + (IF ((-INT_MAX - 1) + d) % base = 0 THEN 0 ELSE 1)
             THEN [ok |-> FALSE, err |-> "stoi", val |-> 0]
             ELSE StoiDigits(s, i + 1, base, acc * base - d, TRUE, neg)
    ELSE IF ~any THEN [ok |-> FALSE, err |-> "stoi", val |-> 0]
    ELSE IF neg THEN [ok |-> TRUE, err |-> "", val |-> acc]
    ELSE IF acc = -INT_MAX - 1 THEN [ok |-> FALSE, err |-> "stoi", val |-> 0]
    ELSE [ok |-> TRUE, err |-> "", val |-> -acc]

\* std::stoi(s, nullptr, base) for base 10 and 16: leading white space, an
\* optional sign, for base 16 an optional 0x/0X, then digits; anything after
\* the digits is ignored.  Fails (std::invalid_argument) with no digit and
\* (std::out_of_range) when the value is no int.
\* std::stoi after the leading white space: sign, then 0x for base 16, then the digits from i2
stoiDigitsFrom(s, base, i1, neg) ==
    StoiDigits(s,
               IF /\ base = 16
                  /\ Ch(s, i1) = "0"
                  /\ Ch(s, i1 + 1) \in {"x", "X"}
                  /\ DigitVal(Ch(s, i1 + 2)) < 16
               THEN i1 + 2 ELSE i1,
               base, 0, FALSE, neg)

stoiAt(s, base, i0) ==
    stoiDigitsFrom(s, base, IF Ch(s, i0) \in {"-", "+"} THEN i0 + 1 ELSE i0, Ch(s, i0) = "-")

stoi(s, base) == stoiAt(s, base, SkipSpace(s, 1))

(***************************************************************************)
(* 32-bit words as bit vectors                                             *)
(***************************************************************************)
Pow2(n) == 2 ^ n

\* static_cast<uint32_t>(v) of an int v: its two's-complement bits
ToU32(v) ==
    [i \in 0..31 |-> IF i = 31 THEN (IF v < 0 THEN 1 ELSE 0) ELSE (v \div Pow2(i)) % 2]

Or32(a, b)  == [i \in 0..31 |-> IF a[i] = 1 \/ b[i] = 1 THEN 1 ELSE 0]
And32(a, b) == [i \in 0..31 |-> IF a[i] = 1 /\ b[i] = 1 THEN 1 ELSE 0]
Shl32(a, k) == [i \in 0..31 |-> IF i >= k THEN a[i - k] ELSE 0]
Shr32(a, k) == [i \in 0..31 |-> IF i + k <= 31 THEN a[i + k] ELSE 0]

RECURSIVE BitsVal(_, _, _)
\* the number held in bits lo..hi of a bit vector (hi - lo < 31)
BitsVal(w, lo, hi) ==
    IF hi < lo THEN 0 ELSE w[lo] + 2 * BitsVal(w, lo + 1, hi)

\* a word written as 8 hex digits, most significant first
U32Hex(h) ==
    [i \in 0..31 |-> (DigitVal(Ch(h, 8 - (i \div 4))) \div Pow2(i % 4)) % 2]

(***************************************************************************)
(* Encoder (encoder.h)                                                     *)
(***************************************************************************)
Ok(w)    == [ok |-> TRUE, err |-> "", w |-> w]
Throw(e) == [ok |-> FALSE, err |-> e, w |-> ToU32(0)]

validRegister(r) == 0 <= r /\ r <= 31

\* validSignedImm with the upper limit one too high
validSignedImm_wide(v, bits) == -Pow2(bits - 1) <= v /\ v <= Pow2(bits - 1)

validSignedImm(v, bits) ==
    LET lo == -Pow2(bits - 1)
        hi == Pow2(bits - 1) - 1
    IN  lo <= v /\ v <= hi

\* C++ integer division and remainder (truncation toward zero), b > 0
CDiv(a, b) == IF a >= 0 \/ a % b = 0 THEN a \div b ELSE (a \div b) + 1
CRem(a, b) == a - b * CDiv(a, b)

readImm(s) ==
    IF Len(s) > 2 /\ Ch(s, 1) = "0" /\ Ch(s, 2) \in {"x", "X"}
    THEN stoi(SubSeq(s, 3, Len(s)), 16)
    ELSE stoi(s, 10)

\* readReg's range check of the number v that std::stoi read
regRange(s, v) ==
    IF ~v.ok THEN v
    ELSE IF v.val < 0 \/ v.val > 30
    THEN [ok |-> FALSE, err |-> "Register out of range: " \o s, val |-> 0]
    ELSE v

readReg(s) ==
    IF s = "xzr" \/ s = "sp" THEN [ok |-> TRUE, err |-> "", val |-> 31]
    ELSE IF Ch(s, 1) # "x" THEN [ok |-> FALSE, err |-> "Invalid register: " \o s, val |-> 0]
    ELSE regRange(s, stoi(SubSeq(s, 2, Len(s)), 10))

\* the four bytes std::cout.put receives, in order
\* emit32le without its last put
emit32le_short(w) ==
    << BitsVal(w, 0, 7), BitsVal(w, 8, 15), BitsVal(w, 16, 23) >>

\* emit32le writing the most significant byte first
emit32le_be(w) ==
    << BitsVal(w, 24, 31), BitsVal(w, 16, 23), BitsVal(w, 8, 15), BitsVal(w, 0, 7) >>

emit32le(w) ==
    << BitsVal(And32(w, ToU32(255)), 0, 7),
       BitsVal(And32(Shr32(w, 8), ToU32(255)), 0, 7),
       BitsVal(And32(Shr32(w, 16), ToU32(255)), 0, 7),
       BitsVal(And32(Shr32(w, 24), ToU32(255)), 0, 7) >>

\* encodeRRR with rn left unshifted
encodeRRR_noshift(base, rd, rn, rm) ==
    Ok(Or32(Or32(Or32(base, ToU32(rd)), ToU32(rn)), ToU32(rm * Pow2(16))))

encodeRRR(base, rd, rn, rm) ==
    IF ~validRegister(rd) \/ ~validRegister(rn) \/ ~validRegister(rm)
    THEN Throw("Invalid register value")
    ELSE Ok(Or32(Or32(Or32(base, ToU32(rd)), ToU32(rn * Pow2(5))), ToU32(rm * Pow2(16))))

encodeCmp(rn, rm) ==
    IF ~validRegister(rn) \/ ~validRegister(rm)
    THEN Throw("Invalid register value")
    ELSE Ok(Or32(Or32(U32Hex("EB20601F"), ToU32(rn * Pow2(5))), ToU32(rm * Pow2(16))))

\* encodeBranchReg with rn left unshifted
encodeBranchReg_noshift(base, rn) == Ok(Or32(base, ToU32(rn)))

encodeBranchReg(base, rn) ==
    IF ~validRegister(rn)
    THEN Throw("Invalid register value")
    ELSE Ok(Or32(base, ToU32(rn * Pow2(5))))

encodeMem(base, rt, rn, imm) ==
    IF ~validRegister(rt) \/ ~validRegister(rn)
    THEN Throw("Invalid register value")
    ELSE IF ~validSignedImm(imm, 9)
    THEN Throw("Immediate out of range for ldur/stur")
    ELSE LET imm9 == And32(ToU32(imm), U32Hex("000001FF"))
         IN  Ok(Or32(Or32(Or32(base, ToU32(rt)), ToU32(rn * Pow2(5))), Shl32(imm9, 12)))

\* encodeLdr without the divisibility test
encodeLdr_nodiv(rd, offset) ==
    IF ~validRegister(rd)
    THEN Throw("Invalid register value")
    ELSE IF ~validSignedImm(CDiv(offset, 4), 19)
    THEN Throw("ldr offset out of range")
    ELSE Ok(Or32(Or32(U32Hex("58000000"), ToU32(rd)),
                 Shl32(And32(ToU32(CDiv(offset, 4)), U32Hex("0007FFFF")), 5)))

encodeLdr(rd, offset) ==
    IF CRem(offset, 4) # 0
    THEN Throw("ldr offset must be divisible by 4")
    ELSE IF ~validRegister(rd)
    THEN Throw("Invalid register value")
    ELSE IF ~validSignedImm(CDiv(offset, 4), 19)
    THEN Throw("ldr offset out of range")
    ELSE LET imm19 == And32(ToU32(CDiv(offset, 4)), U32Hex("0007FFFF"))
         IN  Ok(Or32(Or32(U32Hex("58000000"), ToU32(rd)), Shl32(imm19, 5)))

\* encodeBranch without the & 0x3FFFFFF
encodeBranch_unmasked(offset) ==
    IF CRem(offset, 4) # 0
    THEN Throw("b offset must be divisible by 4")
    ELSE IF ~validSignedImm(CDiv(offset, 4), 26)
    THEN Throw("b offset out of range")
    ELSE Ok(Or32(U32Hex("14000000"), ToU32(CDiv(offset, 4))))

encodeBranch(offset) ==
    IF CRem(offset, 4) # 0
    THEN Throw("b offset must be divisible by 4")
    ELSE IF ~validSignedImm(CDiv(offset, 4), 26)
    THEN Throw("b offset out of range")
    ELSE LET imm26 == And32(ToU32(CDiv(offset, 4)), U32Hex("03FFFFFF"))
         IN  Ok(Or32(U32Hex("14000000"), imm26))

\* encodeBCond with the byte offset in the field
encodeBCond_bytes(cond, offset) ==
    Ok(Or32(Or32(U32Hex("54000000"), Shl32(And32(ToU32(offset), U32Hex("0007FFFF")), 5)),
            And32(ToU32(cond), U32Hex("0000001F"))))

encodeBCond(cond, offset) ==
    IF CRem(offset, 4) # 0
    THEN Throw("b.cond offset must be divisible by 4")
    ELSE IF ~validSignedImm(CDiv(offset, 4), 19)
    THEN Throw("b.cond offset out of range")
    ELSE IF cond < 0 \/ cond > 13
    THEN Throw("Invalid condition code")
    ELSE LET imm19 == And32(ToU32(CDiv(offset, 4)), U32Hex("0007FFFF"))
         IN  Ok(Or32(Or32(U32Hex("54000000"), Shl32(imm19, 5)),
                     And32(ToU32(cond), U32Hex("0000001F"))))

encode(instr, a, b, c) ==
    CASE instr = "add"    -> encodeRRR(U32Hex("8B206000"), a, b, c)
      [] instr = "sub"    -> encodeRRR(U32Hex("CB206000"), a, b, c)
      [] instr = "mul"    -> encodeRRR(U32Hex("9B007C00"), a, b, c)
      [] instr = "smulh"  -> encodeRRR(U32Hex("9B407C00"), a, b, c)
      [] instr = "umulh"  -> encodeRRR(U32Hex("9BC07C00"), a, b, c)
      [] instr = "sdiv"   -> encodeRRR(U32Hex("9AC00C00"), a, b, c)
      [] instr = "udiv"   -> encodeRRR(U32Hex("9AC00800"), a, b, c)
      [] instr = "cmp"    -> encodeCmp(a, b)
      [] instr = "br"     -> encodeBranchReg(U32Hex("D61F0000"), a)
      [] instr = "blr"    -> encodeBranchReg(U32Hex("D63F0000"), a)
      [] instr = "ldur"   -> encodeMem(U32Hex("F8400000"), a, b, c)
      [] instr = "stur"   -> encodeMem(U32Hex("F8000000"), a, b, c)
      [] instr = "ldr"    -> encodeLdr(a, b)
      [] instr = "b"      -> encodeBranch(a)
      [] instr = "b.cond" -> encodeBCond(a, b)
      [] OTHER            -> Throw("Unknown instruction: " \o instr)

(***************************************************************************)
(* 64-bit unsigned values: four 16-bit limbs, limb k holding bits 16k..16k+15 *)
(***************************************************************************)
Limb == 65536

U64Zero == [k \in 0..3 |-> 0]

\* the uint64_t of a number 0 <= n <= INT_MAX
U64Of(n) == [k \in 0..3 |-> IF k = 0 THEN n % Limb ELSE IF k = 1 THEN n \div Limb ELSE 0]

RECURSIVE U64Borrow(_, _, _)
\* borrow out of limbs 0..k-1 of a - b
U64Borrow(a, b, k) ==
    IF k = 0 THEN 0
    ELSE IF a[k - 1] - b[k - 1] - U64Borrow(a, b, k - 1) < 0 THEN 1 ELSE 0

\* a - b modulo 2^64: the bits of static_cast<int64_t>(a) - static_cast<int64_t>(b)
U64Sub(a, b) == [k \in 0..3 |-> (a[k] - b[k] - U64Borrow(a, b, k)) % Limb]

\* static_cast<int>(x) of a 64-bit value: its low 32 bits as a two's-complement int
ToInt32(v) ==
    IF v[1] >= Limb \div 2 THEN (v[1] - Limb) * Limb + v[0] ELSE v[1] * Limb + v[0]

\* the int64_t bits of an int (sign extension)
SExt64(n) ==
    [k \in 0..3 |-> IF k = 0 THEN n % Limb
                    ELSE IF k = 1 THEN (n \div Limb) % Limb
                    ELSE IF n < 0 THEN Limb - 1 ELSE 0]

RECURSIVE U64MulCarry(_, _, _, _)
\* carry into limb k of v * m + d  (m, d < 37)
U64MulCarry(v, m, d, k) ==
    IF k = 0 THEN d ELSE (v[k - 1] * m + U64MulCarry(v, m, d, k - 1)) \div Limb

U64MulAdd(v, m, d) == [k \in 0..3 |-> (v[k] * m + U64MulCarry(v, m, d, k)) % Limb]

\* the eight bytes std::cout.put receives: (w >> (8 * i)) & 0xFF for i = 0..7
\* emit64le with the most significant byte first
emit64le_be(w) ==
    [i \in 1..8 |-> (w[(8 - i) \div 2] \div (IF (8 - i) % 2 = 0 THEN 1 ELSE 256)) % 256]

emit64le(w) ==
    [i \in 1..8 |-> (w[(i - 1) \div 2] \div (IF (i - 1) % 2 = 0 THEN 1 ELSE 256)) % 256]

RECURSIVE StoullDigits(_, _, _, _, _)
StoullDigits(s, i, base, acc, any) ==
    IF i <= Len(s) /\ DigitVal(Ch(s, i)) < base
    THEN LET d == DigitVal(Ch(s, i))
         IN  IF U64MulCarry(acc, base, d, 4) # 0
             THEN [ok |-> FALSE, err |-> "stoull", val |-> U64Zero]
             ELSE StoullDigits(s, i + 1, base, U64MulAdd(acc, base, d), TRUE)
    ELSE IF ~any THEN [ok |-> FALSE, err |-> "stoull", val |-> U64Zero]
    ELSE [ok |-> TRUE, err |-> "", val |-> acc]

\* std::stoull(s, nullptr, 0): white space, an optional sign, then 0x/0X hex,
\* a leading 0 octal, otherwise decimal; a '-' negates modulo 2^64.
stoullSigned(r, neg) ==
    IF r.ok /\ neg THEN [r EXCEPT !.val = U64Sub(U64Zero, r.val)] ELSE r

stoullBase(s, i1, hex, neg) ==
    stoullSigned(StoullDigits(s, IF hex THEN i1 + 2 ELSE i1,
                              IF hex THEN 16 ELSE IF Ch(s, i1) = "0" THEN 8 ELSE 10,
                              U64Zero, FALSE), neg)

stoullAt(s, i1, neg) ==
    stoullBase(s, i1,
               Ch(s, i1) = "0" /\ Ch(s, i1 + 1) \in {"x", "X"} /\ DigitVal(Ch(s, i1 + 2)) < 16,
               neg)

stoullFrom(s, i0) ==
    stoullAt(s, IF Ch(s, i0) \in {"-", "+"} THEN i0 + 1 ELSE i0, Ch(s, i0) = "-")

stoull0(s) == stoullFrom(s, SkipSpace(s, 1))

(***************************************************************************)
(* Tokens (token.h) and the raw-assembly lexer (lexer.h)                   *)
(***************************************************************************)
Tok(type, lexeme) == [type |-> type, lexeme |-> lexeme]

NL == Tok("NEWLINE", "")

RECURSIVE FindFrom(_, _, _)
\* std::string::find(pat, i - 1): the least 1-based position >= i where pat occurs, or 0
FindFrom(s, pat, i) ==
    IF i + Len(pat) - 1 > Len(s) THEN 0
    ELSE IF SubSeq(s, i, i + Len(pat) - 1) = pat THEN i
    ELSE FindFrom(s, pat, i + 1)

RECURSIVE AllDigits(_, _)
AllDigits(s, i) == i > Len(s) \/ (isdigit(Ch(s, i)) /\ AllDigits(s, i + 1))

\* RawAsmLexer::isInteger, HighLevelParser::isInteger
isInteger(s) ==
    IF s = "" THEN FALSE
    ELSE LET st == IF Ch(s, 1) \in {"-", "+"} THEN 1 ELSE 0
         IN  IF st >= Len(s) THEN FALSE ELSE AllDigits(s, st + 1)

stripComment(line) ==
    LET semi == FindFrom(line, ";", 1)
        pos  == IF semi = 0 THEN FindFrom(line, "//", 1) ELSE semi
    IN  IF pos = 0 THEN line ELSE SubSeq(line, 1, pos - 1)

classify(word) ==
    IF word = "" THEN Tok("NONE", word)
    ELSE IF Ch(word, Len(word)) = ":" THEN Tok("LABEL", word)
    ELSE IF Ch(word, 1) = "." THEN Tok("DOTID", word)
    ELSE IF Len(word) > 2 /\ Ch(word, 1) = "0" /\ Ch(word, 2) \in {"x", "X"} THEN Tok("HEXINT", word)
    ELSE IF isInteger(word) THEN Tok("INT", word)
    ELSE IF word = "xzr" THEN Tok("ZREG", word)
    ELSE IF Len(word) >= 2 /\ Ch(word, 1) = "x" /\ isdigit(Ch(word, 2)) THEN Tok("REG", word)
    ELSE Tok("ID", word)

condSuffixes == {".eq", ".ne", ".hs", ".lo", ".hi", ".ls", ".ge", ".lt", ".gt", ".le"}

\* the tokens RawAsmLexer::classifyAndPush appends for one word
classifyAndPush(word) ==
    IF word = "" THEN << >>
    ELSE IF /\ Len(word) >= 4 /\ Ch(word, 1) = "b" /\ Ch(word, 2) = "."
            /\ SubSeq(word, 2, Len(word)) \in condSuffixes
    THEN << Tok("ID", "b"), Tok("DOTID", SubSeq(word, 2, Len(word))) >>
    ELSE << classify(word) >>

RECURSIVE WordEnd(_, _)
\* the position after the word that starts at i
WordEnd(line, i) ==
    IF i <= Len(line) /\ ~isspace(Ch(line, i)) /\ Ch(line, i) \notin {",", "[", "]"}
    THEN WordEnd(line, i + 1)
    ELSE i

RECURSIVE tokenizeFrom(_, _)
tokenizeFrom(line, i) ==
    IF i > Len(line) THEN << >>
    ELSE IF isspace(Ch(line, i)) THEN tokenizeFrom(line, i + 1)
    ELSE IF Ch(line, i) = "," THEN << Tok("COMMA", ",") >> \o tokenizeFrom(line, i + 1)
    ELSE IF Ch(line, i) = "[" THEN << Tok("LBRACK", "[") >> \o tokenizeFrom(line, i + 1)
    ELSE IF Ch(line, i) = "]" THEN << Tok("RBRACK", "]") >> \o tokenizeFrom(line, i + 1)
    ELSE LET e == WordEnd(line, i)
         IN  classifyAndPush(SubSeq(line, i, e - 1)) \o tokenizeFrom(line, e)

\* the tokens RawAsmLexer::tokenizeLine appends for one line
tokenizeLine(raw) == tokenizeFrom(stripComment(raw), 1)

RECURSIVE RawAsmLexer_lex(_)
\* RawAsmLexer::lex on the lines std::getline yields
RawAsmLexer_lex(text) ==
    IF text = << >> THEN << >>
    ELSE tokenizeLine(Head(text)) \o << NL >> \o RawAsmLexer_lex(Tail(text))

\* stringToTokenType
stringToTokenType(s) ==
    IF s \in {"DOTID", "LABEL", "ID", "HEXINT", "REG", "ZREG", "INT", "COMMA",
              "LBRACK", "RBRACK", "NEWLINE"}
    THEN s ELSE "NONE"

RECURSIVE TokenizedLexer_lex(_)
\* TokenizedLexer::lex on the white-space separated words of the stream: operator>>
\* reads a kind and, unless it is NEWLINE, a lexeme; a token whose read fails is dropped
TokenizedLexer_lex(words) ==
    IF words = << >> THEN << >>
    ELSE IF stringToTokenType(Head(words)) = "NEWLINE"
    THEN << NL >> \o TokenizedLexer_lex(Tail(words))
    ELSE IF Len(words) = 1 THEN << >>
    ELSE << Tok(stringToTokenType(words[1]), words[2]) >>
         \o TokenizedLexer_lex(SubSeq(words, 3, Len(words)))

(***************************************************************************)
(* SymbolTable (symbol_table.h)                                            *)
(***************************************************************************)
EmptyTable == [n \in {} |-> 0]

contains(table, name) == name \in DOMAIN table

\* define that records the name in the order list before it tests for a duplicate
define_pushfirst(table, order, name, address) ==
    IF contains(table, name)
    THEN [ok |-> FALSE, err |-> "Duplicate label: " \o name, table |-> table,
          order |-> Append(order, name)]
    ELSE [ok |-> TRUE, err |-> "",
          table |-> [n \in DOMAIN table \cup {name} |-> IF n = name THEN address ELSE table[n]],
          order |-> Append(order, name)]

\* define that overwrites the address of a name it holds
define_overwrite(table, order, name, address) ==
    [ok |-> TRUE, err |-> "",
     table |-> [n \in DOMAIN table \cup {name} |-> IF n = name THEN address ELSE table[n]],
     order |-> IF contains(table, name) THEN order ELSE Append(order, name)]

\* SymbolTable::define: the table and the order list after the call, or the throw
define(table, order, name, address) ==
    IF contains(table, name)
    THEN [ok |-> FALSE, err |-> "Duplicate label: " \o name, table |-> table, order |-> order]
    ELSE [ok |-> TRUE, err |-> "",
          table |-> [n \in DOMAIN table \cup {name} |-> IF n = name THEN address ELSE table[n]],
          order |-> Append(order, name)]

\* lookup that answers 0 for a name it does not hold
lookup_zero(table, name) ==
    [ok |-> TRUE, err |-> "", val |-> IF contains(table, name) THEN table[name] ELSE 0]

\* SymbolTable::lookup
lookup(table, name) ==
    IF ~contains(table, name)
    THEN [ok |-> FALSE, err |-> "Undefined label: " \o name, val |-> 0]
    ELSE [ok |-> TRUE, err |-> "", val |-> table[name]]

(***************************************************************************)
(* Assembler (assembler.h)                                                 *)
(***************************************************************************)
patterns ==
    [m \in {"add", "sub", "mul", "smulh", "umulh", "sdiv", "udiv", "cmp", "br", "blr",
            "ldur", "stur", "ldr", "b"} |->
        CASE m \in {"add", "sub", "mul", "smulh", "umulh", "sdiv", "udiv"} -> "rcrcz"
          [] m = "cmp" -> "rcz"
          [] m \in {"br", "blr"} -> "r"
          [] m \in {"ldur", "stur"} -> "rclrcit"
          [] m = "ldr" -> "rcj"
          [] m = "b" -> "j"]

\* condCodes numbered in the order of the table, without the gap between .lo and .hi
condCodes_dense ==
    [s \in condSuffixes |->
        CASE s = ".eq" -> 0 [] s = ".ne" -> 1 [] s = ".hs" -> 2 [] s = ".lo" -> 3
          [] s = ".hi" -> 4 [] s = ".ls" -> 5 [] s = ".ge" -> 6 [] s = ".lt" -> 7
          [] s = ".gt" -> 8 [] s = ".le" -> 9]

condCodes ==
    [s \in condSuffixes |->
        CASE s = ".eq" -> 0 [] s = ".ne" -> 1 [] s = ".hs" -> 2 [] s = ".lo" -> 3
          [] s = ".hi" -> 8 [] s = ".ls" -> 9 [] s = ".ge" -> 10 [] s = ".lt" -> 11
          [] s = ".gt" -> 12 [] s = ".le" -> 13]

RECURSIVE groupFrom(_, _, _)
groupFrom(toks, i, cur) ==
    IF i > Len(toks) THEN (IF cur # << >> THEN << cur >> ELSE << >>)
    ELSE IF toks[i].type = "NEWLINE"
    THEN (IF cur # << >> THEN << cur >> ELSE << >>) \o groupFrom(toks, i + 1, << >>)
    ELSE groupFrom(toks, i + 1, Append(cur, toks[i]))

\* groupLines without the push after the loop: a last statement that no NEWLINE
\* ends is lost
groupLines_closed(toks) ==
    LET ends == {i \in 1..Len(toks) : toks[i].type = "NEWLINE"}
        last == IF ends = {} THEN 0 ELSE CHOOSE i \in ends : \A j \in ends : j <= i
    IN  groupFrom(SubSeq(toks, 1, last), 1, << >>)

groupLines(toks) == groupFrom(toks, 1, << >>)

isLabelOnly(line) == Len(line) = 1 /\ line[1].type = "LABEL"

is8byte(line) == line # << >> /\ line[1].type = "DOTID" /\ line[1].lexeme = ".8byte"

\* the name pass 1 defines for a label token: the lexeme without one trailing ':'
labelName(lexeme) ==
    IF Ch(lexeme, Len(lexeme)) = ":" THEN SubSeq(lexeme, 1, Len(lexeme) - 1) ELSE lexeme

\* pass1 after symbols_.define returned or threw as d
\* pass1Line with the .8byte advance of an instruction
pass1Line_skew(line, pcv, table, order) ==
    IF isLabelOnly(line)
    THEN [ok |-> TRUE, err |-> "", pc |-> pcv, table |-> table, order |-> order]
    ELSE [ok |-> TRUE, err |-> "", pc |-> pcv + 4, table |-> table, order |-> order]

defined(d, pcv) == [ok |-> d.ok, err |-> d.err, pc |-> pcv, table |-> d.table, order |-> d.order]

\* one iteration of pass1's loop: the pc and the symbol table after the line
pass1Line(line, pcv, table, order) ==
    IF isLabelOnly(line)
    THEN defined(define(table, order, labelName(line[1].lexeme), pcv), pcv)
    ELSE IF is8byte(line)
    THEN [ok |-> TRUE, err |-> "", pc |-> pcv + 8, table |-> table, order |-> order]
    ELSE [ok |-> TRUE, err |-> "", pc |-> pcv + 4, table |-> table, order |-> order]

\* pass2, case 'j' with a label: static_cast<int>(int64_t(lookup) - int64_t(pc))
labelOffset(addr64, pc64) == ToInt32(U64Sub(addr64, pc64))

ArgsOk(args, ti) == [ok |-> TRUE, err |-> "", args |-> args, ti |-> ti]
ArgsThrow(e)     == [ok |-> FALSE, err |-> e, args |-> << >>, ti |-> 0]

\* an operand slot that stores r.val in args[ai++], or passes r's throw on
Stored(r) == [ok |-> r.ok, err |-> r.err, has |-> TRUE, val |-> r.val]
NoValue   == [ok |-> TRUE, err |-> "", has |-> FALSE, val |-> 0]
Reject(e) == [ok |-> FALSE, err |-> e, has |-> FALSE, val |-> 0]

\* pass2, case 'j' with an ID token whose lookup gave a
labelOperand(a, pcv) ==
    [ok |-> a.ok, err |-> a.err, has |-> TRUE,
     val |-> IF a.ok THEN labelOffset(U64Of(a.val), U64Of(pcv)) ELSE 0]

\* what one pattern character does with token t: the value for args[ai++], if any
operand(p, t, pcv, table) ==
    CASE p = "r" ->
            IF t.type = "REG" \/ (t.type = "ID" /\ t.lexeme = "sp")
            THEN Stored(readReg(t.lexeme))
            ELSE Reject("Expected register or sp")
      [] p = "z" ->
            IF t.type # "REG" /\ t.type # "ZREG"
            THEN Reject("Expected register or xzr")
            ELSE Stored(readReg(t.lexeme))
      [] p = "c" -> IF t.type # "COMMA" THEN Reject("Expected comma") ELSE NoValue
      [] p = "l" -> IF t.type # "LBRACK" THEN Reject("Expected '['") ELSE NoValue
      [] p = "t" -> IF t.type # "RBRACK" THEN Reject("Expected ']'") ELSE NoValue
      [] p = "i" ->
            IF t.type = "INT" \/ t.type = "HEXINT"
            THEN Stored(readImm(t.lexeme))
            ELSE Reject("Expected immediate")
      [] p = "j" ->
            IF t.type = "INT" \/ t.type = "HEXINT"
            THEN Stored(readImm(t.lexeme))
            ELSE IF t.type = "ID"
            THEN labelOperand(lookup(table, t.lexeme), pcv)
            ELSE Reject("Expected immediate or label")

RECURSIVE matchPattern(_, _, _, _, _, _, _, _)
RECURSIVE matchNext(_, _, _, _, _, _, _, _, _)
\* pass2's loop over the pattern, from pattern position pi and token position ti
matchPattern(pattern, pi, line, ti, args, instr, pcv, table) ==
    IF pi > Len(pattern) THEN ArgsOk(args, ti)
    ELSE IF ti > Len(line) THEN ArgsThrow("Too few operands for " \o instr)
    ELSE matchNext(operand(Ch(pattern, pi), line[ti], pcv, table),
                   pattern, pi, line, ti, args, instr, pcv, table)

\* the rest of the loop after the pattern character at pi gave o
matchNext(o, pattern, pi, line, ti, args, instr, pcv, table) ==
    IF ~o.ok THEN ArgsThrow(o.err)
    ELSE matchPattern(pattern, pi + 1, line, ti + 1,
                      IF o.has THEN Append(args, o.val) ELSE args, instr, pcv, table)

\* args[k] of the int args[3] = {0, 0, 0} after the values in filled were stored
Arg(filled, k) == IF k <= Len(filled) THEN filled[k] ELSE 0

Emit(bytes, adv) == [kind |-> "emit", err |-> "", bytes |-> bytes, adv |-> adv]
Fail(e)          == [kind |-> "throw", err |-> e, bytes |-> << >>, adv |-> 0]
Skip             == [kind |-> "skip", err |-> "", bytes |-> << >>, adv |-> 0]

\* assembler.h 179-180: Encoder::emit32le(word) unless Encoder::encode threw
emitWord(e) == IF ~e.ok THEN Fail(e.err) ELSE Emit(emit32le(e.w), 4)

\* encodeMatched without the test for tokens left over
encodeMatched_lenient(instr, m, line) ==
    IF ~m.ok THEN Fail(m.err)
    ELSE emitWord(encode(instr, Arg(m.args, 1), Arg(m.args, 2), Arg(m.args, 3)))

\* assembler.h 176-180: after the pattern loop ended as m
encodeMatched(instr, m, line) ==
    IF ~m.ok THEN Fail(m.err)
    ELSE IF m.ti <= Len(line) THEN Fail("Extra tokens after " \o instr)
    ELSE emitWord(encode(instr, Arg(m.args, 1), Arg(m.args, 2), Arg(m.args, 3)))

\* assembler.h 132-180: the pattern loop, the token count check, encode and emit
pass2Operands(instr, pattern, args0, ti0, line, pcv, table) ==
    IF pattern = "" THEN Fail("No pattern for instruction: " \o instr)
    ELSE encodeMatched(instr, matchPattern(pattern, 1, line, ti0, args0, instr, pcv, table), line)

\* an instruction statement of pass2 (assembler.h 106-181)
pass2Instr(line, pcv, table) ==
    IF line[1].type # "ID" THEN Fail("Expected instruction, got: " \o line[1].lexeme)
    ELSE IF line[1].lexeme \notin DOMAIN patterns /\ line[1].lexeme # "b"
    THEN Fail("Unknown instruction: " \o line[1].lexeme)
    ELSE IF line[1].lexeme = "b" /\ Len(line) > 1 /\ line[2].type = "DOTID"
    THEN IF line[2].lexeme \notin DOMAIN condCodes
         THEN Fail("Invalid condition: " \o line[2].lexeme)
         ELSE pass2Operands("b.cond", patterns["b"], << condCodes[line[2].lexeme] >>, 3,
                            line, pcv, table)
    ELSE pass2Operands(line[1].lexeme,
                       IF line[1].lexeme \in DOMAIN patterns THEN patterns[line[1].lexeme] ELSE "",
                       << >>, 2, line, pcv, table)

\* Encoder::emit64le(val) unless the lookup or std::stoull threw
emitData(v) == IF ~v.ok THEN Fail(v.err) ELSE Emit(emit64le(v.val), 8)

\* symbols_.lookup's address as the uint64_t val
lookup64(a) == [ok |-> a.ok, err |-> a.err, val |-> IF a.ok THEN U64Of(a.val) ELSE U64Zero]

\* a .8byte statement of pass2 (assembler.h 94-104)
pass2Data(line, table) ==
    IF Len(line) < 2 THEN Fail("Missing operand for .8byte")
    ELSE IF line[2].type = "ID"
    THEN emitData(lookup64(lookup(table, line[2].lexeme)))
    ELSE emitData(stoull0(line[2].lexeme))

\* one iteration of pass2's loop: the bytes written and the pc advance, or the throw
pass2Line(line, pcv, table) ==
    IF line = << >> THEN Skip
    ELSE IF isLabelOnly(line) THEN Skip
    ELSE IF is8byte(line) THEN pass2Data(line, table)
    ELSE pass2Instr(line, pcv, table)

(***************************************************************************)
(* IR (ir.h) and the pseudocode parser (highlevel.h)                       *)
(***************************************************************************)
\* IRInstruction{op, dst, src1, src2, label, cond, imm}
IR(op, dst, src1, src2, label, cond, imm) ==
    [op |-> op, dst |-> dst, src1 |-> src1, src2 |-> src2, label |-> label,
     cond |-> cond, imm |-> imm]

RECURSIVE stripLeft(_, _)
stripLeft(s, a) == IF a <= Len(s) /\ isspace(Ch(s, a)) THEN stripLeft(s, a + 1) ELSE a

RECURSIVE stripRight(_, _, _)
stripRight(s, a, b) == IF b >= a /\ isspace(Ch(s, b)) THEN stripRight(s, a, b - 1) ELSE b

\* HighLevelParser::strip
strip(s) ==
    LET a == stripLeft(s, 1)
        b == stripRight(s, a, Len(s))
    IN  SubSeq(s, a, b)

RECURSIVE NonSpaceEnd(_, _)
NonSpaceEnd(s, i) == IF i <= Len(s) /\ ~isspace(Ch(s, i)) THEN NonSpaceEnd(s, i + 1) ELSE i

RECURSIVE splitFrom(_, _)
splitFrom(s, i) ==
    IF i > Len(s) THEN << >>
    ELSE IF isspace(Ch(s, i)) THEN splitFrom(s, i + 1)
    ELSE LET e == NonSpaceEnd(s, i)
         IN  << SubSeq(s, i, e - 1) >> \o splitFrom(s, e)

\* HighLevelParser::split: the white-space separated words of s
split(s) == splitFrom(s, 1)

\* HighLevelParser::isReg
isReg(s) ==
    s = "xzr" \/ s = "sp" \/ (Len(s) >= 2 /\ Ch(s, 1) = "x" /\ isdigit(Ch(s, 2)))

RECURSIVE joinWords(_, _)
\* words i.. of ws, each preceded by a space
joinWords(ws, i) == IF i > Len(ws) THEN "" ELSE " " \o ws[i] \o joinWords(ws, i + 1)

RECURSIVE indexOf(_, _, _)
\* std::find: the least position >= i of w in ws, or Len(ws) + 1
indexOf(ws, w, i) == IF i > Len(ws) \/ ws[i] = w THEN i ELSE indexOf(ws, w, i + 1)

One(inst)     == [ok |-> TRUE, err |-> "", ir |-> << inst >>]
SynErr(e)     == [ok |-> FALSE, err |-> e, ir |-> << >>]

\* the "( base + offset )" part shared by parseLoad and parseStore, after the
\* leading '*' is cut: front() / back() of an empty string read no character
addrExpr(text, bad) ==
    LET a == IF Ch(text, 1) = "(" THEN SubSeq(text, 2, Len(text)) ELSE text
        b == IF Ch(a, Len(a)) = ")" THEN SubSeq(a, 1, Len(a) - 1) ELSE a
        parts == split(b)
    IN  IF Len(parts) = 1 THEN [ok |-> TRUE, err |-> "", base |-> parts[1], offset |-> "0"]
        ELSE IF Len(parts) = 3 /\ parts[2] = "+"
        THEN [ok |-> TRUE, err |-> "", base |-> parts[1], offset |-> parts[3]]
        ELSE [ok |-> FALSE, err |-> bad, base |-> "", offset |-> ""]

\* HighLevelParser::parseLoad
parseLoad(dest, rhs) ==
    LET first == SubSeq(rhs[1], 2, Len(rhs[1]))
    IN  IF first = "" \/ Ch(first, 1) = "("
        THEN LET e == addrExpr(first \o joinWords(rhs, 2), "Bad load syntax")
             IN  IF ~e.ok THEN SynErr(e.err)
                 ELSE One(IR("LOAD", dest, e.base, "", "", "", e.offset))
        ELSE One(IR("LOAD", dest, first, "", "", "", "0"))

\* HighLevelParser::parseStore
parseStore(words, eqIdx) ==
    IF eqIdx + 1 > Len(words) THEN SynErr("Missing value in store")
    ELSE
    LET joined == IF eqIdx = 1 THEN "" ELSE words[1] \o joinWords(SubSeq(words, 1, eqIdx - 1), 2)
        val == words[eqIdx + 1]
        lhs == SubSeq(joined, 2, Len(joined))
    IN  IF lhs = "" \/ Ch(lhs, 1) = "("
        THEN LET e == addrExpr(lhs, "Bad store syntax")
             IN  IF ~e.ok THEN SynErr(e.err)
                 ELSE One(IR("STORE", e.base, val, "", "", "", e.offset))
        ELSE One(IR("STORE", lhs, val, "", "", "", "0"))

\* HighLevelParser::parseLine: the IR instructions it appends (one or none), or the throw
parseLine(line) ==
    LET words == split(line)
    IN
    IF words = << >> THEN [ok |-> TRUE, err |-> "", ir |-> << >>]
    ELSE IF words[1] = "label"
    THEN IF Len(words) < 2 THEN SynErr("label requires a name")
         ELSE One(IR("LABEL", words[2], "", "", "", "", ""))
    ELSE IF words[1] = "goto"
    THEN IF Len(words) < 2 THEN SynErr("goto requires a label")
         ELSE One(IR("BRANCH", "", "", "", words[2], "", ""))
    ELSE IF words[1] = "call"
    THEN IF Len(words) < 2 THEN SynErr("call requires a register")
         ELSE One(IR("CALL", "", words[2], "", "", "", ""))
    ELSE IF words[1] = "ret"
    THEN One(IR("RET", "", "", "", "", "", ""))
    ELSE IF words[1] = ".8byte"
    THEN IF Len(words) < 2 THEN SynErr(".8byte requires a value")
         ELSE One(IR("DATA8", "", "", "", "", "", words[2]))
    ELSE IF words[1] = "if"
    THEN IF Len(words) < 6 \/ words[5] # "goto"
         THEN SynErr("Syntax: if <reg> <op> <reg> goto <label>")
         ELSE One(IR("CMP_BRANCH", "", words[2], words[4], words[6], words[3], ""))
    ELSE
    LET eqIdx == indexOf(words, "=", 1)
    IN  IF eqIdx > Len(words) THEN SynErr("Unrecognized statement: " \o line)
        ELSE IF Ch(words[1], 1) = "*" THEN parseStore(words, eqIdx)
        ELSE IF eqIdx # 2 THEN SynErr("Expected 'register = ...': " \o line)
        ELSE
        LET dest == words[1]
            rhs  == SubSeq(words, 3, Len(words))
        IN  IF rhs # << >> /\ Ch(rhs[1], 1) = "*" THEN parseLoad(dest, rhs)
            ELSE IF Len(rhs) = 3 /\ isReg(rhs[1]) /\ isReg(rhs[3])
            THEN IF rhs[2] \in {"+", "-", "*", "/", "%"}
                 THEN One(IR(CASE rhs[2] = "+" -> "ADD" [] rhs[2] = "-" -> "SUB"
                               [] rhs[2] = "*" -> "MUL" [] rhs[2] = "/" -> "DIV"
                               [] rhs[2] = "%" -> "MOD",
                             dest, rhs[1], rhs[3], "", "", ""))
                 ELSE SynErr("Unknown operator: " \o rhs[2])
            ELSE IF Len(rhs) = 1 /\ isReg(rhs[1])
            THEN One(IR("MOV", dest, rhs[1], "", "", "", ""))
            ELSE SynErr("Unrecognized assignment: " \o line)

RECURSIVE HighLevelParser_parse_comments(_)
\* parse that skips blank lines only: a comment line is parsed as a statement
HighLevelParser_parse_comments(text) ==
    IF text = << >> THEN [ok |-> TRUE, err |-> "", ir |-> << >>]
    ELSE LET line == strip(Head(text))
             one  == IF line = "" THEN [ok |-> TRUE, err |-> "", ir |-> << >>]
                     ELSE parseLine(line)
         IN  IF ~one.ok THEN one
             ELSE LET rest == HighLevelParser_parse_comments(Tail(text))
                  IN  IF ~rest.ok THEN rest
                      ELSE [ok |-> TRUE, err |-> "", ir |-> one.ir \o rest.ir]

RECURSIVE HighLevelParser_parse(_)
\* HighLevelParser::parse on the lines std::getline yields
HighLevelParser_parse(text) ==
    IF text = << >> THEN [ok |-> TRUE, err |-> "", ir |-> << >>]
    ELSE LET line == strip(Head(text))
             one  == IF line = "" \/ Ch(line, 1) = "#"
                     THEN [ok |-> TRUE, err |-> "", ir |-> << >>]
                     ELSE parseLine(line)
         IN  IF ~one.ok THEN one
             ELSE LET rest == HighLevelParser_parse(Tail(text))
                  IN  IF ~rest.ok THEN rest
                      ELSE [ok |-> TRUE, err |-> "", ir |-> one.ir \o rest.ir]

(***************************************************************************)
(* IR codegen (ir_codegen.h)                                               *)
(***************************************************************************)
Toks(ts)    == [ok |-> TRUE, err |-> "", toks |-> ts]
GenErr(e)   == [ok |-> FALSE, err |-> e, toks |-> << >>]

\* IRCodeGen::regToken
regToken(s) ==
    IF s = "xzr" THEN Toks(<< Tok("ZREG", s) >>)
    ELSE IF s = "sp" THEN Toks(<< Tok("ID", s) >>)
    ELSE IF Len(s) >= 2 /\ Ch(s, 1) = "x" /\ isdigit(Ch(s, 2)) THEN Toks(<< Tok("REG", s) >>)
    ELSE GenErr("IRCodeGen: expected register, got: " \o s)

\* IRCodeGen::immOrLabel
immOrLabel(s) ==
    IF s = "" THEN GenErr("IRCodeGen: empty immediate/label")
    ELSE IF Ch(s, 1) = "0" /\ Len(s) > 2 /\ Ch(s, 2) \in {"x", "X"} THEN Toks(<< Tok("HEXINT", s) >>)
    ELSE LET st == IF Ch(s, 1) \in {"-", "+"} THEN 1 ELSE 0
             isInt == IF st >= Len(s) THEN FALSE ELSE AllDigits(s, st + 1)
         IN  IF isInt THEN Toks(<< Tok("INT", s) >>) ELSE Toks(<< Tok("ID", s) >>)

\* condSuffix with the unsigned suffix for <
condSuffix_unsigned(cond) ==
    CASE cond = "==" -> [ok |-> TRUE, err |-> "", s |-> ".eq"]
      [] cond = "!=" -> [ok |-> TRUE, err |-> "", s |-> ".ne"]
      [] cond = "<"  -> [ok |-> TRUE, err |-> "", s |-> ".lo"]
      [] cond = "<=" -> [ok |-> TRUE, err |-> "", s |-> ".le"]
      [] cond = ">"  -> [ok |-> TRUE, err |-> "", s |-> ".gt"]
      [] cond = ">=" -> [ok |-> TRUE, err |-> "", s |-> ".ge"]
      [] OTHER       -> [ok |-> FALSE, err |-> "IRCodeGen: unknown condition: " \o cond, s |-> ""]

\* IRCodeGen::condSuffix
condSuffix(cond) ==
    CASE cond = "==" -> [ok |-> TRUE, err |-> "", s |-> ".eq"]
      [] cond = "!=" -> [ok |-> TRUE, err |-> "", s |-> ".ne"]
      [] cond = "<"  -> [ok |-> TRUE, err |-> "", s |-> ".lt"]
      [] cond = "<=" -> [ok |-> TRUE, err |-> "", s |-> ".le"]
      [] cond = ">"  -> [ok |-> TRUE, err |-> "", s |-> ".gt"]
      [] cond = ">=" -> [ok |-> TRUE, err |-> "", s |-> ".ge"]
      [] OTHER       -> [ok |-> FALSE, err |-> "IRCodeGen: unknown condition: " \o cond, s |-> ""]

RECURSIVE seqParts(_, _)
\* the concatenation of the token lists in parts, or the first throw among them
seqParts(parts, i) ==
    IF i > Len(parts) THEN Toks(<< >>)
    ELSE IF ~parts[i].ok THEN parts[i]
    ELSE LET rest == seqParts(parts, i + 1)
         IN  IF ~rest.ok THEN rest ELSE Toks(parts[i].toks \o rest.toks)

\* IRCodeGen::emit3Reg
emit3Reg(instr, a, b, c) ==
    seqParts(<< Toks(<< Tok("ID", instr) >>), regToken(a), Toks(<< Tok("COMMA", ",") >>),
                regToken(b), Toks(<< Tok("COMMA", ",") >>), regToken(c) >>, 1)

\* IRCodeGen::lowerOne: the tokens it appends, or the throw
lowerOne(inst) ==
    CASE inst.op = "LABEL" -> Toks(<< Tok("LABEL", inst.dst \o ":") >>)
      [] inst.op = "ADD" -> emit3Reg("add", inst.dst, inst.src1, inst.src2)
      [] inst.op = "SUB" -> emit3Reg("sub", inst.dst, inst.src1, inst.src2)
      [] inst.op = "MUL" -> emit3Reg("mul", inst.dst, inst.src1, inst.src2)
      [] inst.op = "DIV" -> emit3Reg("sdiv", inst.dst, inst.src1, inst.src2)
      [] inst.op = "MOD" ->
            seqParts(<< emit3Reg("sdiv", inst.dst, inst.src1, inst.src2), Toks(<< NL >>),
                        emit3Reg("mul", inst.dst, inst.dst, inst.src2), Toks(<< NL >>),
                        emit3Reg("sub", inst.dst, inst.src1, inst.dst) >>, 1)
      [] inst.op = "MOV" -> emit3Reg("add", inst.dst, inst.src1, "xzr")
      [] inst.op = "LOAD" ->
            seqParts(<< Toks(<< Tok("ID", "ldur") >>), regToken(inst.dst),
                        Toks(<< Tok("COMMA", ","), Tok("LBRACK", "[") >>), regToken(inst.src1),
                        Toks(<< Tok("COMMA", ","), Tok("INT", inst.imm), Tok("RBRACK", "]") >>) >>, 1)
      [] inst.op = "STORE" ->
            seqParts(<< Toks(<< Tok("ID", "stur") >>), regToken(inst.src1),
                        Toks(<< Tok("COMMA", ","), Tok("LBRACK", "[") >>), regToken(inst.dst),
                        Toks(<< Tok("COMMA", ","), Tok("INT", inst.imm), Tok("RBRACK", "]") >>) >>, 1)
      [] inst.op = "CMP_BRANCH" ->
            LET cs == condSuffix(inst.cond)
            IN  seqParts(<< Toks(<< Tok("ID", "cmp") >>), regToken(inst.src1),
                            Toks(<< Tok("COMMA", ",") >>), regToken(inst.src2),
                            Toks(<< NL, Tok("ID", "b") >>),
                            IF cs.ok THEN Toks(<< Tok("DOTID", cs.s) >>) ELSE GenErr(cs.err),
                            immOrLabel(inst.label) >>, 1)
      [] inst.op = "BRANCH" -> seqParts(<< Toks(<< Tok("ID", "b") >>), immOrLabel(inst.label) >>, 1)
      [] inst.op = "CALL" -> seqParts(<< Toks(<< Tok("ID", "blr") >>), regToken(inst.src1) >>, 1)
      [] inst.op = "RET" -> Toks(<< Tok("ID", "br"), Tok("REG", "x30") >>)
      [] inst.op = "DATA8" ->
            seqParts(<< Toks(<< Tok("DOTID", ".8byte") >>), immOrLabel(inst.imm) >>, 1)

RECURSIVE IRCodeGen_lower(_)
\* IRCodeGen::lower
IRCodeGen_lower(irs) ==
    IF irs = << >> THEN Toks(<< >>)
    ELSE LET one == lowerOne(Head(irs))
         IN  IF ~one.ok THEN one
             ELSE LET rest == IRCodeGen_lower(Tail(irs))
                  IN  IF ~rest.ok THEN rest
                      ELSE Toks(one.toks \o << NL >> \o rest.toks)

(***************************************************************************)
(* Assembler::assemble as a function of the token list                     *)
(***************************************************************************)
RECURSIVE pass1(_, _, _, _, _)
RECURSIVE pass1Rest(_, _, _)
\* Assembler::pass1 from line i on: the symbol table, or the throw
pass1(lns, i, pcv, table, order) ==
    IF i > Len(lns) THEN [ok |-> TRUE, err |-> "", table |-> table, order |-> order]
    ELSE pass1Rest(lns, i, pass1Line(lns[i], pcv, table, order))

pass1Rest(lns, i, r) ==
    IF ~r.ok THEN [ok |-> FALSE, err |-> r.err, table |-> r.table, order |-> r.order]
    ELSE pass1(lns, i + 1, r.pc, r.table, r.order)

RECURSIVE pass2(_, _, _, _, _)
RECURSIVE pass2Rest(_, _, _, _, _, _)
\* Assembler::pass2 from line i on: the bytes on std::cout, and the throw if any
pass2(lns, i, pcv, table, bytes) ==
    IF i > Len(lns) THEN [ok |-> TRUE, err |-> "", out |-> bytes]
    ELSE pass2Rest(lns, i, pcv, table, bytes, pass2Line(lns[i], pcv, table))

pass2Rest(lns, i, pcv, table, bytes, r) ==
    IF r.kind = "throw" THEN [ok |-> FALSE, err |-> r.err, out |-> bytes]
    ELSE pass2(lns, i + 1, pcv + r.adv, table, bytes \o r.bytes)

\* Assembler::assemble after pass1 ended as s
assembleLines(lns, s) ==
    IF ~s.ok THEN [ok |-> FALSE, err |-> s.err, out |-> << >>]
    ELSE pass2(lns, 1, 0, s.table, << >>)

\* Assembler::assemble
Assembler_assemble(toks) ==
    assembleLines(groupLines(toks), pass1(groupLines(toks), 1, 0, EmptyTable, << >>))

(***************************************************************************)
(* The assembly text of a lowering, written as the README's table writes   *)
(* it: one statement per line, operands separated by ", ", the condition   *)
(* suffix joined to b, brackets joined to what they enclose                *)
(***************************************************************************)
RECURSIVE AsmLines(_, _, _)
\* the text lines of toks from position i on; cur is the line so far
AsmLines(toks, i, cur) ==
    IF i > Len(toks) THEN (IF cur = "" THEN << >> ELSE << cur >>)
    ELSE IF toks[i].type = "NEWLINE" THEN << cur >> \o AsmLines(toks, i + 1, "")
    ELSE IF \/ cur = ""
            \/ toks[i].type \in {"COMMA", "RBRACK", "DOTID"}
            \/ toks[i - 1].type = "LBRACK"
    THEN AsmLines(toks, i + 1, cur \o toks[i].lexeme)
    ELSE AsmLines(toks, i + 1, cur \o " " \o toks[i].lexeme)

AsmText(toks) == AsmLines(toks, 1, "")

\* main with --raw on the text lines: RawAsmLexer::lex, then Assembler::assemble
RawRun(text) == Assembler_assemble(RawAsmLexer_lex(text))


(***************************************************************************)
(* main (main.cpp) and Assembler::assemble as a state machine              *)
(***************************************************************************)
RECURSIVE Dec(_)
\* operator<<(std::ostream &, uint64_t): the decimal digits of n
Dec(n) == IF n < 10 THEN Ch(DigitChars, n + 1) ELSE Dec(n \div 10) \o Ch(DigitChars, (n % 10) + 1)

RECURSIVE symbolLines_last(_, _, _)
\* symbolLines written from the last label to the first
symbolLines_last(order, table, i) ==
    IF i > Len(order) THEN << >>
    ELSE symbolLines_last(order, table, i + 1) \o << order[i] \o " " \o Dec(table[order[i]]) >>

RECURSIVE symbolLines(_, _, _)
\* the lines Assembler::dumpSymbols writes to std::cerr
symbolLines(order, table, i) ==
    IF i > Len(order) THEN << >>
    ELSE << order[i] \o " " \o Dec(table[order[i]]) >> \o symbolLines(order, table, i + 1)

\* the program length bound of the explored inputs
MaxStmts == 2

SeqsUpTo(S, n) == UNION {[1..k -> S] : k \in 0..n}

RECURSIVE Flatten(_)
Flatten(ss) == IF ss = << >> THEN << >> ELSE Head(ss) \o Flatten(Tail(ss))

\* raw assembly lines the explored programs are made of
RawAlphabet ==
    {"L:", ".8byte L", ".8byte 7", "b L", "b.ne L", "ldr x1, L", "add x1, x2, x3",
     "ldur x1, [x2, -8]", "stur x1, [x2, 256]", "", "add x1, x2", "br x30 x1"}

\* pseudocode lines the explored programs are made of
HighAlphabet ==
    {"label L", "goto L", "if x1 < x2 goto L", "x1 = x2 + x3", "x4 = x5 % x6",
     "x1 = *(x2 + 0x10)", "*x1 = x2", ".8byte L", "call x9", "# note", "x1 = x2",
     "x1 = *(x2 + 8abc)", "call 7", "frob"}

\* pre-tokenized statements (white-space separated words) the explored programs are made of
TokenizedAlphabet ==
    {<<"LABEL", "L:", "NEWLINE">>,
     <<"ID", "b", "ID", "L", "NEWLINE">>,
     <<"DOTID", ".8byte", "HEXINT", "0x10", "NEWLINE">>,
     <<"ID", "add", "REG", "x1", "COMMA", ",", "REG", "x2", "COMMA", ",", "ZREG", "xzr", "NEWLINE">>,
     <<"NEWLINE">>,
     <<"LABEL", "L:", "ID", "b", "ID", "L", "NEWLINE">>,
     <<"ID", "cmp", "REG", "xzr", "COMMA", ",", "ZREG", "sp", "NEWLINE">>,
     <<"ID", "br", "REG", "x30">>}

\* the README's example: the pseudocode loop, with and without its comment line
LoopProgram ==
    <<"label loop", "if x1 == x2 goto done", "x1 = x1 + x3", "goto loop", "label done", "ret">>

ReadmeLoop == <<"# sum x1 += x3 while x1 != x2">> \o LoopProgram

\* the raw assembly the README gives for the loop
ReadmeRawLoop ==
    <<"loop:", "    cmp x1, x2", "    b.eq done", "    add x1, x1, x3", "    b loop",
      "done:", "    br x30">>

\* a pseudocode program with a line for every row of the README's syntax table
AllOpsProgram ==
    <<"label top", "x1 = x2 + x3", "x1 = x2 - x3", "x1 = x2 * x3", "x1 = x2 / x3",
      "x4 = x5 % x6", "label mid", "x1 = x2", "x1 = *(x2 + 8)", "*(x1 + -8) = x2",
      "goto mid", "call x9", "ret", ".8byte top">>

\* the programs explored: the short ones over the alphabet, and whole programs
Inputs(m) ==
    CASE m = "RAW" ->
          SeqsUpTo(RawAlphabet, MaxStmts) \cup
          {<<".8byte target", "target:", "  br x30">>,
               ReadmeRawLoop,
               <<"L:", "", ".8byte L", "b.ne L", "ldr x1, L">>,
               <<"L:", "b.eq L", "b.ne L", "b.hs L", "b.lo L", "b.hi L", "b.ls L", "b.ge L", "b.lt L",
                 "b.gt L", "b.le L">>,
               <<"add x1, x2, x3", "b .al L", "L:">>,
               <<".8byte 010", ".8byte 0x1F0", "L:", ".8byte 300", ".8byte L">>,
               <<".8byte 7", ".8byte">>,
               <<"brx30">>,
               <<"add x1, x2, x3", "L:", ".8byte L", "L:", "b L">>,
               <<"b L", ".8byte 7", "ldr x1, M", "L:", "add x1, x2, x3">>}
      [] m = "HIGH" ->
          SeqsUpTo(HighAlphabet, MaxStmts) \cup
          {AllOpsProgram,
               <<"label L", "x1 = x2", "if x1 ~ x2 goto L">>,
               <<"label top", "if x1 == x2 goto top", "if x1 != x2 goto top", "if x1 < x2 goto top",
                 "if x1 <= x2 goto end", "if x1 > x2 goto end", "if x1 >= x2 goto end", "label end",
                 ".8byte 0x10", "x1 = *x2", "*x1 = x2">>,
               <<"x1 = x2 + x3">>,
               <<"label loop", "x1 = x1 + x3", "goto loop">>,
               ReadmeLoop,
               LoopProgram,
               <<"x4 = x5 % x6">>,
               <<"x4 = x4 % x6">>,
               <<"x4 = x5 % x4">>,
               <<"x4 = x4 % x4">>,
               <<"label L", "x6 = x7 % x6", "goto L">>,
               <<"", "   # c", "x1 = x2", " ", "#x", " ret ", "  label L", "goto L  ">>,
               <<"x1 = x2", "# x1 = *", "x1 = *(", "ret">>,
               <<"x1 = xzr">>, <<"xzr = x1">>, <<"x1 = sp">>, <<"x1 = x2 + sp">>,
               <<"sp = x1 + x2">>, <<"x1 = xzr + x2">>,
               <<"x1 = x2 + xzr", "x30 = x0 / x30", "x9 = x30", "sp = sp * x2", "x3 = x4 - xzr">>}
      [] m = "TOKENIZED" -> {Flatten(p) : p \in SeqsUpTo(TokenizedAlphabet, MaxStmts)}

Init ==
    /\ mode \in {"TOKENIZED", "RAW", "HIGH"}
    /\ input \in Inputs(mode)
    /\ dumpIRFlag = FALSE
    /\ stage = "start"
    /\ ir = << >>
    /\ tokens = << >>
    /\ lines = << >>
    /\ li = 0
    /\ pc = 0
    /\ table_ = EmptyTable
    /\ order_ = << >>
    /\ out = << >>
    /\ diag = << >>
    /\ exit = -1
    /\ trace = << >>
    /\ call = << >>
    /\ ret = << >>

\* a catch block that reports the error and lets main return 0
Abort_continue(e) ==
    /\ diag' = Append(diag, "ERROR: " \o e)
    /\ exit' = 0
    /\ stage' = "done"

\* main's catch block: one ERROR line on std::cerr, exit status 1
Abort(e) ==
    /\ diag' = Append(diag, "ERROR: " \o e)
    /\ exit' = 1
    /\ stage' = "done"

\* main: tokens = TokenizedLexer::lex(in) / RawAsmLexer::lex(in)
Lex ==
    /\ stage = "start"
    /\ mode \in {"TOKENIZED", "RAW"}
    /\ tokens' = IF mode = "RAW" THEN RawAsmLexer_lex(input) ELSE TokenizedLexer_lex(input)
    /\ stage' = "assemble"
    /\ UNCHANGED <<mode, input, dumpIRFlag, ir, lines, li, pc, table_, order_, out, diag,
                   exit, trace, call, ret>>

\* main: auto ir = HighLevelParser::parse(in)
Parse ==
    /\ stage = "start"
    /\ mode = "HIGH"
    /\ LET r == HighLevelParser_parse(input)
       IN  IF r.ok
           THEN /\ ir' = r.ir
                /\ stage' = "parsed"
                /\ UNCHANGED <<diag, exit>>
           ELSE /\ Abort(r.err)
                /\ UNCHANGED ir
    /\ UNCHANGED <<mode, input, dumpIRFlag, tokens, lines, li, pc, table_, order_, out,
                   trace, call, ret>>

\* main: tokens = IRCodeGen::lower(ir)
Lower ==
    /\ stage = "parsed"
    /\ ~dumpIRFlag
    /\ LET r == IRCodeGen_lower(ir)
       IN  IF r.ok
           THEN /\ tokens' = r.toks
                /\ stage' = "assemble"
                /\ UNCHANGED <<diag, exit>>
           ELSE /\ Abort(r.err)
                /\ UNCHANGED tokens
    /\ UNCHANGED <<mode, input, dumpIRFlag, ir, lines, li, pc, table_, order_, out,
                   trace, call, ret>>

\* Assembler::assemble: auto lines = groupLines(tokens); pass1 starts with pc = 0
GroupLines ==
    /\ stage = "assemble"
    /\ lines' = groupLines(tokens)
    /\ li' = 1
    /\ pc' = 0
    /\ stage' = "pass1"
    /\ UNCHANGED <<mode, input, dumpIRFlag, ir, tokens, table_, order_, out, diag, exit,
                   trace, call, ret>>

\* one iteration of pass1's loop
Pass1Step ==
    /\ stage = "pass1"
    /\ li <= Len(lines)
    /\ LET r == pass1Line(lines[li], pc, table_, order_)
       IN  IF r.ok
           THEN /\ pc' = r.pc
                /\ table_' = r.table
                /\ order_' = r.order
                /\ li' = li + 1
                /\ UNCHANGED <<stage, diag, exit>>
           ELSE /\ Abort(r.err)
                /\ UNCHANGED <<pc, table_, order_, li>>
    /\ UNCHANGED <<mode, input, dumpIRFlag, ir, tokens, lines, out, trace, call, ret>>

\* pass1 returns; pass2 starts with pc = 0
Pass1End ==
    /\ stage = "pass1"
    /\ li > Len(lines)
    /\ stage' = "pass2"
    /\ li' = 1
    /\ pc' = 0
    /\ UNCHANGED <<mode, input, dumpIRFlag, ir, tokens, lines, table_, order_, out, diag,
                   exit, trace, call, ret>>

\* one iteration of pass2's loop
Pass2Step ==
    /\ stage = "pass2"
    /\ li <= Len(lines)
    /\ LET r == pass2Line(lines[li], pc, table_)
       IN  IF r.kind # "throw"
           THEN /\ out' = out \o r.bytes
                /\ pc' = pc + r.adv
                /\ li' = li + 1
                /\ trace' = Append(trace, [li |-> li, pc |-> pc, at |-> Len(out), n |-> Len(r.bytes)])
                /\ UNCHANGED <<stage, diag, exit>>
           ELSE /\ Abort(r.err)
                /\ UNCHANGED <<out, pc, li, trace>>
    /\ UNCHANGED <<mode, input, dumpIRFlag, ir, tokens, lines, table_, order_, call, ret>>

\* pass2 returns; Assembler::dumpSymbols; main returns 0
DumpSymbols ==
    /\ stage = "pass2"
    /\ li > Len(lines)
    /\ diag' = diag \o symbolLines(order_, table_, 1)
    /\ exit' = 0
    /\ stage' = "done"
    /\ UNCHANGED <<mode, input, dumpIRFlag, ir, tokens, lines, li, pc, table_, order_, out,
                   trace, call, ret>>

\* printUsage: the lines written to std::cerr (the last line has - between two
\* grave accents, a character no TLA+ string can hold: ' stands for it)
usageLines ==
    <<"Usage:",
      "  asm [OPTIONS] [FILE]",
      "",
      "Modes (pick one, default is --tokenized):",
      "  --tokenized   Input is pre-tokenized (TOKEN_TYPE lexeme) format",
      "  --raw         Input is raw ARM64 assembly text",
      "  --high        Input is high-level pseudocode syntax",
      "",
      "Options:",
      "  --dump-ir     (--high only) Print IR to stderr instead of assembling",
      "",
      "If FILE is omitted or is '-', reads from stdin.">>

\* main with --help or -h among its arguments: printUsage(); return 0, the
\* input is not read
Help ==
    /\ stage = "start"
    /\ diag' = diag \o usageLines
    /\ exit' = 0
    /\ stage' = "done"
    /\ UNCHANGED <<mode, input, dumpIRFlag, ir, tokens, lines, li, pc, table_, order_, out,
                   trace, call, ret>>

Next ==
    \/ Help
    \/ Lex
    \/ Parse
    \/ Lower
    \/ GroupLines
    \/ Pass1Step
    \/ Pass1End
    \/ Pass2Step
    \/ DumpSymbols

Spec == Init /\ [][Next]_vars

\* main with a FILE argument: fp.open(filename) fails, main writes its own
\* ERROR line and returns 1 before anything is read
OpenFail ==
    /\ stage = "start"
    /\ \E filename \in {"prog.s", "--ir"} :
          diag' = Append(diag, "ERROR: Cannot open file: " \o filename)
    /\ exit' = 1
    /\ stage' = "done"
    /\ UNCHANGED <<mode, input, dumpIRFlag, ir, tokens, lines, li, pc, table_, order_, out,
                   trace, call, ret>>

\* one line of dumpIR (ir.h)
dumpLine(i) ==
    CASE i.op = "LABEL" -> i.dst \o ":"
      [] i.op \in {"ADD", "SUB", "MUL", "DIV", "MOD"} ->
            "  " \o i.op \o " " \o i.dst \o ", " \o i.src1 \o ", " \o i.src2
      [] i.op = "MOV" -> "  MOV " \o i.dst \o ", " \o i.src1
      [] i.op = "LOAD" -> "  LOAD " \o i.dst \o ", [" \o i.src1 \o " + " \o i.imm \o "]"
      [] i.op = "STORE" -> "  STORE [" \o i.dst \o " + " \o i.imm \o "], " \o i.src1
      [] i.op = "CMP_BRANCH" ->
            "  CMP_BRANCH " \o i.src1 \o " " \o i.cond \o " " \o i.src2 \o ", " \o i.label
      [] i.op = "BRANCH" -> "  BRANCH " \o i.label
      [] i.op = "CALL" -> "  CALL " \o i.src1
      [] i.op = "RET" -> "  RET"
      [] i.op = "DATA8" -> "  DATA8 " \o i.imm

\* main with --high --dump-ir: dumpIR(ir, std::cerr); return 0
DumpIR ==
    /\ stage = "parsed"
    /\ dumpIRFlag
    /\ diag' = diag \o [k \in 1..Len(ir) |-> dumpLine(ir[k])]
    /\ exit' = 0
    /\ stage' = "done"
    /\ UNCHANGED <<mode, input, dumpIRFlag, ir, tokens, lines, li, pc, table_, order_, out,
                   trace, call, ret>>

\* runs with and without --dump-ir
SpecDump ==
    /\ mode \in {"TOKENIZED", "RAW", "HIGH"}
    /\ input \in Inputs(mode)
    /\ dumpIRFlag \in BOOLEAN
    /\ stage = "start"
    /\ ir = << >> /\ tokens = << >> /\ lines = << >>
    /\ li = 0 /\ pc = 0
    /\ table_ = EmptyTable /\ order_ = << >>
    /\ out = << >> /\ diag = << >>
    /\ exit = -1
    /\ trace = << >> /\ call = << >> /\ ret = << >>
    /\ [][Next \/ DumpIR]_vars

\* runs that read standard input (Next) or name a file that may not open
SpecFile == Init /\ [][Next \/ OpenFail]_vars

(***************************************************************************)
(* One statement of pass2 on its own: the operand values are drawn from    *)
(* sets around the limits of the immediate fields                          *)
(***************************************************************************)
\* how far around each limit the explored immediates reach
Slack == 2

Around(n) == (n - Slack)..(n + Slack)

\* a statement whose operands args[0..2] are already read
Stmt(instr, a, b, c) ==
    [instr |-> instr, a |-> a, b |-> b, c |-> c, label |-> FALSE,
     addr |-> U64Zero, pcv |-> U64Zero]

EncCalls ==
    {Stmt(i, rd, rn, rm) : i \in {"add", "sub", "mul", "smulh", "umulh", "sdiv", "udiv"},
                           rd \in {0, 1, 2, 4, 8, 16, 31, 32},
                           rn \in {0, 1, 2, 4, 8, 16, 31, 32},
                           rm \in {0, 1, 2, 4, 8, 16, 31, 32}}
    \cup {Stmt("cmp", rn, rm, 0) : rn \in -1..32, rm \in -1..32}
    \cup {Stmt(i, rn, 0, 0) : i \in {"br", "blr"}, rn \in -1..32}
    \cup {Stmt(i, rt, 2, imm) : i \in {"ldur", "stur"}, rt \in {1, 31},
                           imm \in Around(-256) \cup Around(0) \cup Around(255)}
    \cup {Stmt("ldr", 1, off, 0) :
             off \in {4 * w : w \in Around(-262144) \cup Around(0) \cup Around(262143)}
                     \cup {-3, 2}}
    \cup {Stmt("b.cond", cc, off, 0) :
             cc \in {0, 13},
             off \in {4 * w : w \in Around(-262144) \cup Around(0) \cup Around(262143)}
                     \cup {-3, 2}}
    \cup {Stmt("b", off, 0, 0) :
             off \in {4 * w : w \in Around(-33554432) \cup Around(0) \cup Around(33554431)}
                     \cup {-3, 2}}

\* the uint64_t h * 2^32 + n, for n below 2^31
Addr64(h, n) == [k \in 0..3 |-> IF k = 0 THEN n % Limb ELSE IF k = 1 THEN n \div Limb
                                ELSE IF k = 2 THEN h ELSE 0]

\* the largest multiple of 2^32 in the explored addresses
MaxHigh == 1

Addrs ==
    {Addr64(h, n) : h \in 0..MaxHigh, n \in {0, 4, 8, 1048572, 1048576, 134217724, 134217728}}

\* a statement whose j operand is the label at addr, met by pass2 at pcv
LabelStmt(instr, addr, pcv) ==
    [instr |-> instr, a |-> IF instr = "ldr" THEN 1 ELSE 0, b |-> 0, c |-> 0, label |-> TRUE,
     addr |-> addr, pcv |-> pcv]

OffsetCalls == {LabelStmt(i, ad, p) : i \in {"b", "b.cond", "ldr"}, ad \in Addrs, p \in Addrs}

InitUnit(calls, st) ==
    /\ mode = "UNIT"
    /\ input = << >>
    /\ dumpIRFlag = FALSE
    /\ stage = st
    /\ ir = << >>
    /\ tokens = << >>
    /\ lines = << >>
    /\ li = 0
    /\ pc = 0
    /\ table_ = EmptyTable
    /\ order_ = << >>
    /\ out = << >>
    /\ diag = << >>
    /\ exit = -1
    /\ trace = << >>
    /\ call \in calls
    /\ ret = Throw("")

InitEnc == InitUnit(EncCalls, "encode")

InitOffset == InitUnit(OffsetCalls, "operands")

\* pass2, case 'j' with an ID token: args[ai++] = static_cast<int>(lookup - pc)
ResolveLabel ==
    /\ stage = "operands"
    /\ call.label
    /\ call' = IF call.instr = "b"
               THEN [call EXCEPT !.a = labelOffset(call.addr, call.pcv)]
               ELSE [call EXCEPT !.b = labelOffset(call.addr, call.pcv)]
    /\ stage' = "encode"
    /\ UNCHANGED <<mode, input, dumpIRFlag, ir, tokens, lines, li, pc, table_, order_, out,
                   diag, exit, trace, ret>>

\* the word of a statement, written to std::cout, and pc += 4, unless
\* Encoder::encode threw
EncodeDone(e, r) ==
    /\ ret' = e
    /\ IF r.kind = "emit"
       THEN /\ out' = out \o r.bytes
            /\ pc' = pc + r.adv
            /\ exit' = 0
            /\ stage' = "done"
            /\ UNCHANGED diag
       ELSE /\ Abort(r.err)
            /\ UNCHANGED <<out, pc>>

\* pass2: uint32_t word = Encoder::encode(instr, args[0], args[1], args[2]);
\* emit32le(word); pc += 4
EncodeStmt ==
    /\ stage = "encode"
    /\ EncodeDone(encode(call.instr, call.a, call.b, call.c),
                  emitWord(encode(call.instr, call.a, call.b, call.c)))
    /\ UNCHANGED <<mode, input, dumpIRFlag, ir, tokens, lines, li, table_, order_,
                   trace, call>>

SpecEnc == InitEnc /\ [][EncodeStmt]_vars

SpecOffset == InitOffset /\ [][ResolveLabel \/ EncodeStmt]_vars

(***************************************************************************)
(* The fields of the emitted words                                         *)
(***************************************************************************)
\* the width of the immediate field of instr
FieldBits(instr) ==
    CASE instr \in {"ldur", "stur"}  -> 9
      [] instr \in {"ldr", "b.cond"} -> 19
      [] instr = "b"                 -> 26

\* the lowest bit of the immediate field of instr
FieldLo(instr) ==
    CASE instr \in {"ldur", "stur"}  -> 12
      [] instr \in {"ldr", "b.cond"} -> 5
      [] instr = "b"                 -> 0

\* the immediate field of word w, as the unsigned number it holds
Field(instr, w) == BitsVal(w, FieldLo(instr), FieldLo(instr) + FieldBits(instr) - 1)

\* the immediate field of word w, sign-extended
SignedField(instr, w) ==
    IF Field(instr, w) >= Pow2(FieldBits(instr) - 1)
    THEN Field(instr, w) - Pow2(FieldBits(instr))
    ELSE Field(instr, w)

\* the 32-bit word whose little-endian bytes are bytes[at + 1 .. at + 4]
WordAt(bytes, at) == [i \in 0..31 |-> (bytes[at + 1 + (i \div 8)] \div Pow2(i % 8)) % 2]

RECURSIVE Pass1Pc(_, _)
\* the pc of pass1 after the first n lines
Pass1Pc(lns, n) ==
    IF n = 0 THEN 0 ELSE pass1Line(lns[n], Pass1Pc(lns, n - 1), EmptyTable, << >>).pc

(***************************************************************************)
(* Claims                                                                  *)
(***************************************************************************)

\* C1: for every label reference of b, b.cond or ldr whose statement is
\* emitted, the immediate field of the word, sign-extended and multiplied
\* by 4, equals lookup(L) minus the pass-2 PC of the statement (as stated:
\* for every label address and PC).
C1_FieldIsLabelMinusPc ==
    (stage = "done" /\ exit = 0 /\ call.label)
        => SExt64(4 * SignedField(call.instr, ret.w)) = U64Sub(call.addr, call.pcv)

\* a b.cond whose label lies 2^32 bytes ahead is emitted with offset 0
C1_Witness ==
    /\ stage = "done" /\ exit = 0 /\ call.instr = "b.cond"
    /\ call.addr = Addr64(1, 0) /\ call.pcv = U64Zero
    /\ out = <<0, 0, 0, 84>>

\* C2: whenever the signed 64-bit difference lookup(L) - PC does not fit the
\* word-offset field of the instruction, the statement fails with an error
\* and emits nothing: no label/PC pair yields a wrapped offset (as stated).
C2_NoSilentWrap ==
    LET d == U64Sub(call.addr, call.pcv)
        \* the signed 64-bit difference d fits the word-offset field of the instruction
        fits == /\ d = SExt64(ToInt32(d))
                /\ ToInt32(d) % 4 = 0
                /\ -Pow2(FieldBits(call.instr) - 1) <= ToInt32(d) \div 4
                /\ ToInt32(d) \div 4 <= Pow2(FieldBits(call.instr) - 1) - 1
    IN  (stage = "done" /\ call.label /\ ~fits) => (exit = 1 /\ out = << >>)

\* a b whose label lies 2^32 + 4 bytes ahead is emitted as a branch to the next word
C2_Witness ==
    /\ stage = "done" /\ exit = 0 /\ call.instr = "b"
    /\ call.addr = Addr64(1, 4) /\ call.pcv = U64Zero
    /\ out = <<1, 0, 0, 20>>

\* C3: when a program assembles, the primary output holds 4 bytes for each
\* instruction statement and 8 for each .8byte statement; label-only
\* statements and empty lines add nothing.
C3_OutputLength ==
    (mode # "UNIT" /\ stage = "done" /\ exit = 0)
        => Len(out) = 4 * Cardinality({i \in 1..Len(lines) : ~isLabelOnly(lines[i])
                                                              /\ ~is8byte(lines[i])})
                      + 8 * Cardinality({i \in 1..Len(lines) : is8byte(lines[i])})

C3_Witness ==
    /\ mode = "RAW" /\ stage = "done" /\ exit = 0
    /\ \E i \in 1..Len(lines) : ~isLabelOnly(lines[i]) /\ ~is8byte(lines[i])
    /\ \E i \in 1..Len(lines) : is8byte(lines[i])
    /\ \E i \in 1..Len(lines) : isLabelOnly(lines[i])
    /\ \E i \in 1..Len(input) : input[i] = ""

\* C4: at every label-only statement pass 2 reaches, the address pass 1
\* stored for the label equals the pass-2 PC, which is the number of bytes
\* emitted so far; pass 2's PC at every statement is pass 1's PC there.
C4_LabelAddressIsPass2Pc ==
    \A k \in 1..Len(trace) :
        /\ trace[k].pc = trace[k].at
        /\ trace[k].pc = Pass1Pc(lines, trace[k].li - 1)
        /\ isLabelOnly(lines[trace[k].li])
             => /\ lookup(table_, labelName(lines[trace[k].li][1].lexeme)).ok
                /\ lookup(table_, labelName(lines[trace[k].li][1].lexeme)).val = trace[k].pc

C4_Witness ==
    /\ stage = "done" /\ exit = 0
    /\ \E k \in 1..Len(trace) :
          /\ isLabelOnly(lines[trace[k].li])
          /\ trace[k].pc = 8
          /\ is8byte(lines[1])

\* C5: whenever a pseudocode program assembles in --high mode, the --raw
\* pipeline run on the assembly text of its lowering succeeds too and writes
\* the same primary-output bytes (as stated).
C5_HighEqualsRawOfLowering ==
    (mode = "HIGH" /\ stage = "done" /\ exit = 0)
        => (RawRun(AsmText(tokens)).ok /\ RawRun(AsmText(tokens)).out = out)

\* a load whose offset is not a number assembles in --high mode and not as raw text
C5_Witness ==
    /\ mode = "HIGH" /\ input = <<"x1 = *(x2 + 8abc)">> /\ stage = "done" /\ exit = 0
    /\ out = <<65, 128, 64, 248>>
    /\ AsmText(tokens) = <<"ldur x1, [x2, 8abc]">>
    /\ ~RawRun(AsmText(tokens)).ok
    /\ RawRun(AsmText(tokens)).err = "Expected immediate"

\* C6 as stated: the pseudocode program x1 = x2 + x3 emits the single word
\* 0x8B230041, the bytes 41 00 23 8B.
C6_AddWord_AsStated ==
    (mode = "HIGH" /\ input = <<"x1 = x2 + x3">> /\ stage = "done" /\ diag # usageLines)
        => (exit = 0 /\ out = emit32le(U32Hex("8B230041")) /\ out = <<65, 0, 35, 139>>)

\* C6: the pseudocode program x1 = x2 + x3 emits the single word 0x8B236041
\* (the add base 0x8B206000 with rd = 1, rn = 2, rm = 3), the bytes
\* 41 60 23 8B in that order.
C6_AddWord ==
    (mode = "HIGH" /\ input = <<"x1 = x2 + x3">> /\ stage = "done" /\ diag # usageLines)
        => (exit = 0 /\ Len(out) = 4 /\ WordAt(out, 0) = U32Hex("8B236041")
            /\ out = <<65, 96, 35, 139>>)

C6_Witness ==
    /\ mode = "HIGH" /\ input = <<"x1 = x2 + x3">> /\ stage = "done"
    /\ out = <<65, 96, 35, 139>>

\* C7 as stated: the raw program .8byte target / target: / br x30 emits the
\* value 8 in 8 little-endian bytes, then the word 0xD65F03C0, and writes
\* the line "target 8" on the diagnostic channel.
C7_ForwardRef_AsStated ==
    (mode = "RAW" /\ input = <<".8byte target", "target:", "  br x30">> /\ stage = "done"
     /\ diag # usageLines)
        => (exit = 0 /\ out = <<8, 0, 0, 0, 0, 0, 0, 0>> \o emit32le(U32Hex("D65F03C0"))
            /\ diag = <<"target 8">>)

\* C7: the raw program .8byte target / target: / br x30 emits the value 8
\* in 8 little-endian bytes, then the word 0xD61F03C0 (the br base
\* 0xD61F0000 with rn = 30) little-endian, and writes the single line
\* "target 8" on the diagnostic channel.
C7_ForwardRef ==
    (mode = "RAW" /\ input = <<".8byte target", "target:", "  br x30">> /\ stage = "done"
     /\ diag # usageLines)
        => (exit = 0 /\ out = <<8, 0, 0, 0, 0, 0, 0, 0, 192, 3, 31, 214>>
            /\ WordAt(out, 8) = U32Hex("D61F03C0")
            /\ table_ = [n \in {"target"} |-> 8]
            /\ diag = <<"target 8">>)

C7_Witness ==
    /\ mode = "RAW" /\ input = <<".8byte target", "target:", "  br x30">> /\ stage = "done"
    /\ Len(out) = 12 /\ diag = <<"target 8">>

\* C8: the pseudocode loop assembles to exactly five words, cmp x1,x2;
\* b.eq done; add x1,x1,x3; b loop; br x30 in that order, with loop = 0 and
\* done = 16; the b.eq at PC 4 holds word offset 3 and the b at PC 12 holds
\* word offset -3; the bytes are those of the README's raw assembly.
C8_LoopExample ==
    (mode = "HIGH" /\ input \in {LoopProgram, ReadmeLoop} /\ stage = "done"
     /\ diag # usageLines)
        => /\ exit = 0
           /\ Len(out) = 20
           /\ AsmText(tokens) = <<"loop:", "cmp x1, x2", "b.eq done", "add x1, x1, x3",
                                  "b loop", "done:", "br x30">>
           /\ WordAt(out, 0) = U32Hex("EB22603F")
           /\ WordAt(out, 4) = U32Hex("54000060")
           /\ WordAt(out, 8) = U32Hex("8B236021")
           /\ WordAt(out, 12) = U32Hex("17FFFFFD")
           /\ WordAt(out, 16) = U32Hex("D61F03C0")
           /\ table_ = [n \in {"loop", "done"} |-> IF n = "loop" THEN 0 ELSE 16]
           /\ trace[3].pc = 4 /\ SignedField("b.cond", WordAt(out, trace[3].at)) = 3
           /\ trace[5].pc = 12 /\ SignedField("b", WordAt(out, trace[5].at)) = -3
           /\ RawRun(ReadmeRawLoop).ok
           /\ out = RawRun(ReadmeRawLoop).out

C8_Witness ==
    /\ mode = "HIGH" /\ input = LoopProgram /\ stage = "done" /\ exit = 0
    /\ Len(out) = 20 /\ diag = <<"loop 0", "done 16">>

\* C9: every negative immediate that passes its range check is encoded as
\* its two's-complement truncation to the field width (9, 19 or 26 bits)
\* and changes no bit outside the field; b with byte offset -4 is 0x17FFFFFF.
C9_TwosComplementField ==
    /\ LET \* the immediate the statement's field is to hold: the byte offset over 4
           \* for ldr, b.cond and b
           imm  == IF call.instr \in {"ldur", "stur"} THEN call.c
                   ELSE IF call.instr = "b" THEN call.a \div 4
                   ELSE call.b \div 4
           \* the word of the same statement with immediate 0
           zero == IF call.instr \in {"ldur", "stur"} THEN encode(call.instr, call.a, call.b, 0)
                   ELSE IF call.instr = "b" THEN encode("b", 0, 0, 0)
                   ELSE encode(call.instr, call.a, 0, 0)
       IN  (mode = "UNIT" /\ stage = "done" /\ exit = 0 /\ imm < 0)
               => /\ Field(call.instr, ret.w) = imm % Pow2(FieldBits(call.instr))
                  /\ \A i \in (0..31) \ (FieldLo(call.instr)
                                          ..(FieldLo(call.instr) + FieldBits(call.instr) - 1)) :
                         ret.w[i] = zero.w[i]
                  /\ out = emit32le(ret.w)
    /\ (mode = "UNIT" /\ stage = "done" /\ call.instr = "b" /\ call.a = -4)
          => (exit = 0 /\ ret.w = U32Hex("17FFFFFF") /\ out = <<255, 255, 255, 23>>)

C9_Witness ==
    /\ stage = "done" /\ exit = 0 /\ call.instr = "b" /\ call.a = -4
    /\ out = <<255, 255, 255, 23>>

\* C10: ldur and stur accept exactly the immediates of [-256, 255]: each of
\* them emits a word, and every other immediate (-257 and 256 among them)
\* fails with the immediate-range error and emits no word.
C10_MemImmRange ==
    (mode = "UNIT" /\ stage = "done" /\ call.instr \in {"ldur", "stur"})
        => IF -256 <= call.c /\ call.c <= 255
           THEN exit = 0 /\ Len(out) = 4 /\ diag = << >>
           ELSE exit = 1 /\ out = << >>
                /\ diag = <<"ERROR: Immediate out of range for ldur/stur">>

C10_Witness ==
    /\ stage = "done" /\ call.instr = "stur" /\ call.c = 256 /\ exit = 1 /\ out = << >>

\* C11: a byte offset is accepted by b iff it is divisible by 4 and its
\* quotient lies in [-2^25, 2^25 - 1], and by ldr and b.cond iff it is
\* divisible by 4 and its quotient lies in [-2^18, 2^18 - 1]; every other
\* offset, negative ones not divisible by 4 included, fails with one error
\* and emits nothing.
C11_OffsetAcceptance ==
    (mode = "UNIT" /\ stage = "done" /\ call.instr \in {"b", "ldr", "b.cond"})
        => LET off  == IF call.instr = "b" THEN call.a ELSE call.b
               half == IF call.instr = "b" THEN 33554432 ELSE 262144
               fits == off % 4 = 0 /\ -half <= off \div 4 /\ off \div 4 <= half - 1
           IN  /\ (exit = 0) = fits
               /\ fits => Len(out) = 4 /\ diag = << >>
               /\ ~fits => exit = 1 /\ out = << >> /\ Len(diag) = 1

C11_Witness ==
    /\ mode = "UNIT" /\ stage = "done" /\ call.instr = "ldr" /\ call.b = -3
    /\ exit = 1 /\ diag = <<"ERROR: ldr offset must be divisible by 4">>

\* C12: xzr and sp both decode to register 31, and in every token stream
\* the assembler accepts, no operand matched by a z slot has the lexeme sp
\* and no operand matched by an r slot has the lexeme xzr (as stated).
C12_SpXzrAsymmetry ==
    /\ readReg("xzr").val = 31 /\ readReg("sp").val = 31
    /\ \A k \in 1..Len(trace) :
          trace[k].n = 4 =>
             LET line == lines[trace[k].li]
                 cond == line[1].lexeme = "b" /\ Len(line) > 1 /\ line[2].type = "DOTID"
                 pat  == IF cond THEN patterns["b"] ELSE patterns[line[1].lexeme]
                 ti0  == IF cond THEN 3 ELSE 2
             IN  \A pi \in 1..Len(pat) :
                    /\ Ch(pat, pi) = "z" => line[ti0 + pi - 1].lexeme # "sp"
                    /\ Ch(pat, pi) = "r" => line[ti0 + pi - 1].lexeme # "xzr"

\* the pre-tokenized statement cmp xzr, sp with xzr typed REG and sp typed ZREG assembles
C12_Witness ==
    /\ mode = "TOKENIZED" /\ stage = "done" /\ exit = 0
    /\ input = <<"ID", "cmp", "REG", "xzr", "COMMA", ",", "ZREG", "sp", "NEWLINE">>
    /\ out = <<255, 99, 63, 235>>

(***************************************************************************)
(* Unit specification of the helper functions: each behaviour is one call  *)
(* of one function, named by call.fn, on arguments drawn from FnCalls.     *)
(***************************************************************************)
MaxRegNum == 63

\* register lexemes: x0 .. xMaxRegNum, the aliases, and lexemes that are no
\* x followed by a decimal number
RegLexemes ==
    {"x" \o Dec(n) : n \in 0..MaxRegNum}
    \cup {"xzr", "sp", "", "x", "x007", "x030", "x031", "x1abc", "x30abc", "x31abc", "x+5",
          "x-0", "x-1", "x 7", "xzr1", "xsp", "X1", "w1", "1", "x99999999999"}

MaxDefines == 3

\* 32-bit words (8 hex digits) and 64-bit values (16 hex digits), most
\* significant digit first
HexValues ==
    LET b32 == {"00", "01", "7F", "80", "FF"}
        b64 == {"00", "9C", "FF"}
        q64 == {a \o b \o "9C" \o d : a \in {"00", "FF"}, b \in b64, d \in b64}
    IN  {a \o b \o c \o d : a \in b32, b \in b32, c \in b32, d \in b32}
        \cup {"D61F03C0", "12345678"}
        \cup {hi \o lo : hi \in q64, lo \in q64}
        \cup {"0123456789ABCDEF"}

\* n is the address argument of define, 0 where there is none; a define
\* behaviour starts before its first call
FnCalls ==
    {[fn |-> "readReg", s |-> s, n |-> 0] : s \in RegLexemes}
    \cup {[fn |-> "define", s |-> "", n |-> 0]}
    \cup {[fn |-> IF Len(h) = 8 THEN "emit32le" ELSE "emit64le", s |-> h, n |-> 0] :
             h \in HexValues}

InitFn == \E c \in FnCalls : InitUnit({c}, c.fn)

\* pass2, case 'r'/'z': args[argIdx++] = Encoder::readReg(line[ti].lexeme); an
\* exception reaches main's catch block
CallReadReg ==
    /\ stage = "readReg"
    /\ ret' = readReg(call.s)
    /\ IF readReg(call.s).ok
       THEN /\ exit' = 0
            /\ stage' = "done"
            /\ UNCHANGED diag
       ELSE Abort(readReg(call.s).err)
    /\ UNCHANGED <<mode, input, dumpIRFlag, ir, tokens, lines, li, pc, table_, order_,
                   out, trace, call>>

\* one more symbols_.define(name, address) on the same SymbolTable; a caller that
\* catches the exception goes on with the table as define left it
CallDefine ==
    /\ stage = "define"
    /\ li < MaxDefines
    /\ \E name \in {"a", "b", "L"}, address \in {0, 4, 8} :
          /\ call' = [fn |-> "define", s |-> name, n |-> address]
          /\ ret' = define(table_, order_, name, address)
          /\ table_' = define(table_, order_, name, address).table
          /\ order_' = define(table_, order_, name, address).order
    /\ li' = li + 1
    /\ UNCHANGED <<mode, input, dumpIRFlag, stage, ir, tokens, lines, pc, out, diag, exit,
                   trace>>

\* pass2: Encoder::emit32le(word) and Encoder::emit64le(value), the value being
\* the one the hex digits call.s write
CallEmit ==
    /\ stage \in {"emit32le", "emit64le"}
    /\ out' = IF stage = "emit32le"
              THEN out \o emit32le(U32Hex(call.s))
              ELSE out \o emit64le(stoull0("0x" \o call.s).val)
    /\ exit' = 0
    /\ stage' = "done"
    /\ UNCHANGED <<mode, input, dumpIRFlag, ir, tokens, lines, li, pc, table_, order_,
                   diag, trace, call, ret>>

SpecFn == InitFn /\ [][CallReadReg \/ CallDefine \/ CallEmit]_vars

\* C13: readReg(s) returns 31 for "xzr" and "sp", N for "xN" with N a decimal
\* number 0..30, and fails for every other lexeme, in particular for an x
\* followed by anything that is not purely a decimal number.
C13_ReadRegDomain ==
    (mode = "UNIT" /\ stage = "done" /\ call.fn = "readReg")
        => LET s     == call.s
               plain == Len(s) >= 2 /\ Ch(s, 1) = "x" /\ AllDigits(s, 2)
               N     == stoi(SubSeq(s, 2, Len(s)), 10)
           IN  IF s \in {"xzr", "sp"} THEN ret.ok /\ ret.val = 31 /\ exit = 0
               ELSE IF plain /\ N.ok /\ N.val <= 30
                    THEN ret.ok /\ ret.val = N.val /\ exit = 0
                    ELSE ~ret.ok /\ exit = 1 /\ Len(diag) = 1

\* readReg accepted "x1abc" as register 1
C13_Witness ==
    /\ mode = "UNIT" /\ stage = "done" /\ call.fn = "readReg"
    /\ call.s = "x1abc"
    /\ ret.ok /\ ret.val = 1 /\ exit = 0 /\ diag = << >>

\* C14: for each mnemonic of the encoding table and each operand tuple meeting
\* its constraints, encode returns the base word or-ed with the operand fields
\* at the table's bit positions; no field overlaps a set bit of the base word or
\* another field (each bit of the word is the sum of the base bit and the
\* field bits at that position).
C14_EncodeTable ==
    (mode = "UNIT" /\ stage = "done")
        => LET i == call.instr
               a == call.a
               b == call.b
               c == call.c
               RRR == {"add", "sub", "mul", "smulh", "umulh", "sdiv", "udiv"}
               reg(r) == 0 <= r /\ r <= 31
               word(off, n) == off % 4 = 0 /\ -(2 ^ (n - 1)) <= off \div 4
                               /\ off \div 4 <= 2 ^ (n - 1) - 1
               meets == CASE i \in RRR -> reg(a) /\ reg(b) /\ reg(c)
                          [] i = "cmp" -> reg(a) /\ reg(b)
                          [] i \in {"br", "blr"} -> reg(a)
                          [] i \in {"ldur", "stur"} -> reg(a) /\ reg(b) /\ -256 <= c /\ c <= 255
                          [] i = "ldr" -> reg(a) /\ word(b, 19)
                          [] i = "b" -> word(a, 26)
                          [] i = "b.cond" -> 0 <= a /\ a <= 13 /\ word(b, 19)
               base == U32Hex(CASE i = "add" -> "8B206000" [] i = "sub" -> "CB206000"
                                [] i = "mul" -> "9B007C00" [] i = "smulh" -> "9B407C00"
                                [] i = "umulh" -> "9BC07C00" [] i = "sdiv" -> "9AC00C00"
                                [] i = "udiv" -> "9AC00800" [] i = "cmp" -> "EB20601F"
                                [] i = "br" -> "D61F0000" [] i = "blr" -> "D63F0000"
                                [] i = "ldur" -> "F8400000" [] i = "stur" -> "F8000000"
                                [] i = "ldr" -> "58000000" [] i = "b" -> "14000000"
                                [] i = "b.cond" -> "54000000")
               F(v, lo, n) == [k \in 0..31 |-> IF lo <= k /\ k < lo + n
                                               THEN (v \div (2 ^ (k - lo))) % 2 ELSE 0]
               fields == CASE i \in RRR -> <<F(a, 0, 5), F(b, 5, 5), F(c, 16, 5)>>
                           [] i = "cmp" -> <<F(a, 5, 5), F(b, 16, 5)>>
                           [] i \in {"br", "blr"} -> <<F(a, 5, 5)>>
                           [] i \in {"ldur", "stur"} ->
                                <<F(a, 0, 5), F(b, 5, 5), F(c % 512, 12, 9)>>
                           [] i = "ldr" -> <<F(a, 0, 5), F((b \div 4) % 524288, 5, 19)>>
                           [] i = "b" -> <<F((a \div 4) % 67108864, 0, 26)>>
                           [] i = "b.cond" -> <<F((b \div 4) % 524288, 5, 19), F(a % 32, 0, 5)>>
           IN  /\ (exit = 0) = meets
               /\ meets => /\ ret.ok
                           /\ \A k \in 0..31 :
                                ret.w[k] = base[k]
                                           + Cardinality({j \in 1..Len(fields) : fields[j][k] = 1})
                           /\ out = emit32le(ret.w)

\* cmp xzr, xzr has been encoded: both register fields all ones, next to the
\* set bits 0..4, 13, 14 and 21 of the base word
C14_Witness ==
    /\ mode = "UNIT" /\ stage = "done" /\ exit = 0
    /\ call.instr = "cmp" /\ call.a = 31 /\ call.b = 31
    /\ out = <<255, 99, 63, 235>>

\* C15: define on a name already defined fails with a duplicate-label error and
\* leaves the map and the order list unchanged; on a new name it adds the name
\* to both; so after any sequence of define calls the order list has no
\* repeated name and holds exactly the names of the map.
C15_DefineAtomic ==
    /\ [](stage = "define" =>
            /\ \A j, k \in 1..Len(order_) : order_[j] = order_[k] => j = k
            /\ {order_[k] : k \in 1..Len(order_)} = DOMAIN table_)
    /\ [][stage = "define" =>
            IF call'.s \in DOMAIN table_
            THEN /\ ~ret'.ok
                 /\ ret'.err = "Duplicate label: " \o call'.s
                 /\ table_' = table_
                 /\ order_' = order_
            ELSE /\ ret'.ok
                 /\ order_' = Append(order_, call'.s)
                 /\ DOMAIN table_' = DOMAIN table_ \cup {call'.s}
                 /\ table_'[call'.s] = call'.n
                 /\ \A n \in DOMAIN table_ : table_'[n] = table_[n]]_vars

\* the third define repeated the first name and was refused: both structures
\* still hold the two names of the first two calls
C15_Witness ==
    /\ stage = "define" /\ li = 3
    /\ call.s = "a" /\ call.n = 8
    /\ ~ret.ok /\ ret.err = "Duplicate label: a"
    /\ order_ = <<"a", "L">> /\ DOMAIN table_ = {"a", "L"} /\ table_["a"] = 0

\* C16: a reference to a label (operand of b, b.cond, ldr or .8byte) that no
\* label-only statement of the program defines is a fatal undefined-label
\* error; a reference to a label defined later in the program than its use
\* resolves to that label's address.
C16_UndefinedAndForward ==
    (mode \in {"RAW", "HIGH", "TOKENIZED"} /\ stage = "done" /\ lines # << >>)
        => LET labelLines == {k \in 1..Len(lines) : isLabelOnly(lines[k])}
               defs == {labelName(lines[k][1].lexeme) : k \in labelLines}
               isId(k, j) == Len(lines[k]) >= j /\ lines[k][j].type = "ID"
               \* the position of the label operand of statement k, 0 when it has none
               refTok(k) ==
                   IF is8byte(lines[k]) THEN (IF isId(k, 2) THEN 2 ELSE 0)
                   ELSE IF lines[k][1].type = "ID" /\ lines[k][1].lexeme = "b"
                        THEN IF Len(lines[k]) >= 2 /\ lines[k][2].type = "DOTID"
                             THEN (IF isId(k, 3) THEN 3 ELSE 0)
                             ELSE (IF isId(k, 2) THEN 2 ELSE 0)
                   ELSE IF lines[k][1].type = "ID" /\ lines[k][1].lexeme = "ldr"
                        THEN (IF isId(k, 4) THEN 4 ELSE 0)
                   ELSE 0
               name(k) == lines[k][refTok(k)].lexeme
               undefined == {k \in 1..Len(lines) : refTok(k) # 0 /\ name(k) \notin defs}
               pass1Done == Len(order_) = Cardinality(labelLines)
               \* the address of the label-only statement d
               address(d) == 4 * Cardinality({i \in 1..(d - 1) : ~isLabelOnly(lines[i])
                                                                /\ ~is8byte(lines[i])})
                             + 8 * Cardinality({i \in 1..(d - 1) : is8byte(lines[i])})
               mnemonic(k) == IF lines[k][1].lexeme = "ldr" THEN "ldr"
                              ELSE IF lines[k][2].type = "DOTID" THEN "b.cond" ELSE "b"
           IN  /\ undefined # {} =>
                    /\ exit = 1
                    /\ Len(diag) = 1
                    /\ \A k \in undefined : \A e \in 1..Len(trace) : trace[e].li # k
                    /\ \A k \in undefined :
                         (pass1Done /\ Len(trace) = k - 1)
                             => diag = <<"ERROR: Undefined label: " \o name(k)>>
               /\ exit = 0 =>
                    \A e \in 1..Len(trace) : \A d \in labelLines :
                        LET k == trace[e].li
                        IN  (refTok(k) # 0 /\ d > k /\ labelName(lines[d][1].lexeme) = name(k))
                                => /\ table_[name(k)] = address(d)
                                   /\ IF is8byte(lines[k])
                                      THEN SubSeq(out, trace[e].at + 1, trace[e].at + 8)
                                             = <<address(d) % 256, address(d) \div 256,
                                                 0, 0, 0, 0, 0, 0>>
                                      ELSE 4 * SignedField(mnemonic(k), WordAt(out, trace[e].at))
                                             = address(d) - trace[e].pc

\* b.ne L after one emitted add, with no L: in the program: pass 2 stopped at the
\* reference with the undefined-label error
C16_Witness ==
    /\ mode = "RAW" /\ stage = "done" /\ input = <<"add x1, x2, x3", "b.ne L">>
    /\ exit = 1 /\ diag = <<"ERROR: Undefined label: L">> /\ Len(out) = 4

\* C17: the label lines "name address" are written to the diagnostic channel
\* only after pass 2 has emitted every primary-output byte, one line per
\* defined label, in first-definition order with the address in decimal; when
\* assembly fails no label line is written.
C17_LabelLines ==
    /\ [](mode \in {"RAW", "HIGH", "TOKENIZED"} =>
            /\ stage # "done" => diag = << >>
            /\ (stage = "done" /\ exit = 1)
                   => Len(diag) = 1 /\ SubSeq(diag[1], 1, 7) = "ERROR: "
            /\ (stage = "done" /\ exit = 0 /\ diag # usageLines) =>
                   LET labelLines == {k \in 1..Len(lines) : isLabelOnly(lines[k])}
                       rank(k) == Cardinality({j \in labelLines : j <= k})
                       address(d) == 4 * Cardinality({i \in 1..(d - 1) :
                                                        ~isLabelOnly(lines[i])
                                                        /\ ~is8byte(lines[i])})
                                     + 8 * Cardinality({i \in 1..(d - 1) : is8byte(lines[i])})
                   IN  /\ Len(diag) = Cardinality(labelLines)
                       /\ \A k \in labelLines :
                            diag[rank(k)] = labelName(lines[k][1].lexeme) \o " "
                                            \o Dec(address(k))
            /\ (stage = "done" /\ input = ReadmeRawLoop /\ diag # usageLines)
                   => diag = <<"loop 0", "done 16">>)
    /\ [][(mode \in {"RAW", "HIGH", "TOKENIZED"} /\ diag' # diag /\ exit' = 0
           /\ diag' # usageLines)
              => /\ stage = "pass2" /\ li > Len(lines)
                 /\ Len(trace) = Len(lines)
                 /\ \A k \in 1..Len(lines) :
                      trace[k].li = k /\ trace[k].at + trace[k].n <= Len(out)
                 /\ out' = out]_vars

\* the raw loop example has been assembled: 20 bytes, then its two label lines
\* in definition order
C17_Witness ==
    /\ mode = "RAW" /\ stage = "done" /\ input = ReadmeRawLoop
    /\ exit = 0 /\ Len(out) = 20 /\ diag = <<"loop 0", "done 16">>

\* C18: every failure in any stage (pseudocode parse, lowering, pass 1, pass 2,
\* encoder, file open) terminates the run with non-zero exit status after
\* writing exactly one ERROR: line to the diagnostic channel; no failure is
\* reported and then continued past.
C18_OneErrorLine ==
    /\ [](stage = "done" =>
            LET asm(toks) == LET a == Assembler_assemble(toks)
                             IN  [failed |-> ~a.ok, err |-> a.err]
                low(irs)  == LET l == IRCodeGen_lower(irs)
                             IN  IF l.ok THEN asm(l.toks) ELSE [failed |-> TRUE, err |-> l.err]
                failure   == IF mode = "HIGH"
                             THEN LET p == HighLevelParser_parse(input)
                                  IN  IF p.ok THEN low(p.ir)
                                      ELSE [failed |-> TRUE, err |-> p.err]
                             ELSE IF mode = "RAW" THEN asm(RawAsmLexer_lex(input))
                             ELSE asm(TokenizedLexer_lex(input))
                opened    == /\ \A f \in {"prog.s", "--ir"} :
                                   diag # <<"ERROR: Cannot open file: " \o f>>
                             /\ diag # usageLines
            IN  /\ exit \in {0, 1}
                /\ exit = 1 => Len(diag) = 1 /\ SubSeq(diag[1], 1, 7) = "ERROR: "
                /\ exit = 0 => \A k \in 1..Len(diag) :
                                  Len(diag[k]) < 7 \/ SubSeq(diag[k], 1, 7) # "ERROR: "
                /\ (~opened /\ diag # usageLines) => exit = 1 /\ out = << >>
                /\ diag = usageLines => exit = 0 /\ out = << >>
                /\ (opened /\ failure.failed) => exit = 1 /\ diag = <<"ERROR: " \o failure.err>>
                /\ (opened /\ ~failure.failed) => exit = 0)
    /\ [](stage # "done" => exit = -1 /\ diag = << >>)
    /\ [][stage # "done" /\ (diag' # diag => stage' = "done")]_vars

\* the encoder refused the second statement's immediate after the first
\* statement's word was written: one ERROR line, exit status 1
C18_Witness ==
    /\ mode = "RAW" /\ stage = "done" /\ input = <<"add x1, x2, x3", "stur x1, [x2, 256]">>
    /\ exit = 1 /\ Len(out) = 4
    /\ diag = <<"ERROR: Immediate out of range for ldur/stur">>

\* C19: each IR instruction lowers to exactly the statements of the lowering
\* table, separated by NEWLINE tokens: LABEL to one label-only statement, MOD
\* to sdiv dst,src1,src2; mul dst,dst,src2; sub dst,src1,dst (12 bytes, the
\* pass-1 PC advances by 12), CMP_BRANCH to cmp followed by b with the
\* condition suffix of its operator, every other op to one statement.
C19_LoweringTable ==
    (mode = "HIGH" /\ (stage \in {"pass1", "pass2"}
                        \/ (stage = "done" /\ exit = 0 /\ diag # usageLines)))
        => LET R(s) == Tok(IF s = "xzr" THEN "ZREG" ELSE IF s = "sp" THEN "ID" ELSE "REG", s)
               J(s) == Tok(IF Len(s) > 2 /\ SubSeq(s, 1, 2) \in {"0x", "0X"} THEN "HEXINT"
                           ELSE IF isInteger(s) THEN "INT" ELSE "ID", s)
               C == Tok("COMMA", ",")
               rrr(m, a, b, c) == <<Tok("ID", m), R(a), C, R(b), C, R(c)>>
               mem(m, rt, rn, imm, ty) ==
                   <<Tok("ID", m), R(rt), C, Tok("LBRACK", "["), R(rn), C, Tok(ty, imm),
                     Tok("RBRACK", "]")>>
               suffix(op) == CASE op = "==" -> ".eq" [] op = "!=" -> ".ne" [] op = "<" -> ".lt"
                               [] op = "<=" -> ".le" [] op = ">" -> ".gt" [] op = ">=" -> ".ge"
               count(i) == IF i.op = "MOD" THEN 3 ELSE IF i.op = "CMP_BRANCH" THEN 2 ELSE 1
               start(k) == Cardinality({p \in (1..Len(ir)) \X (1..3) :
                                           p[1] < k /\ p[2] <= count(ir[p[1]])})
               \* the statements of the table for instruction i, whose first statement is
               \* statement s of the program
               table(i, s) ==
                   CASE i.op = "LABEL" -> << <<Tok("LABEL", i.dst \o ":")>> >>
                     [] i.op = "ADD" -> << rrr("add", i.dst, i.src1, i.src2) >>
                     [] i.op = "SUB" -> << rrr("sub", i.dst, i.src1, i.src2) >>
                     [] i.op = "MUL" -> << rrr("mul", i.dst, i.src1, i.src2) >>
                     [] i.op = "DIV" -> << rrr("sdiv", i.dst, i.src1, i.src2) >>
                     [] i.op = "MOD" -> << rrr("sdiv", i.dst, i.src1, i.src2),
                                           rrr("mul", i.dst, i.dst, i.src2),
                                           rrr("sub", i.dst, i.src1, i.dst) >>
                     [] i.op = "MOV" -> << rrr("add", i.dst, i.src1, "xzr") >>
                     [] i.op = "LOAD" -> << mem("ldur", i.dst, i.src1, i.imm, lines[s][7].type) >>
                     [] i.op = "STORE" -> << mem("stur", i.src1, i.dst, i.imm, lines[s][7].type) >>
                     [] i.op = "CMP_BRANCH" ->
                          << <<Tok("ID", "cmp"), R(i.src1), C, R(i.src2)>>,
                             <<Tok("ID", "b"), Tok("DOTID", suffix(i.cond)), J(i.label)>> >>
                     [] i.op = "BRANCH" -> << <<Tok("ID", "b"), J(i.label)>> >>
                     [] i.op = "CALL" -> << <<Tok("ID", "blr"), R(i.src1)>> >>
                     [] i.op = "RET" -> << <<Tok("ID", "br"), Tok("REG", "x30")>> >>
                     [] i.op = "DATA8" -> << <<Tok("DOTID", ".8byte"), J(i.imm)>> >>
           IN  /\ Len(lines) = start(Len(ir) + 1)
               /\ \A k \in 1..Len(ir) : \A m \in 1..count(ir[k]) :
                      lines[start(k) + m] = table(ir[k], start(k) + 1)[m]
               \* one NEWLINE after each statement and nowhere else
               /\ Cardinality({t \in 1..Len(tokens) : tokens[t].type = "NEWLINE"}) = Len(lines)
               /\ \A t \in 1..Len(tokens) :
                      tokens[t].type = "NEWLINE" => t > 1 /\ tokens[t - 1].type # "NEWLINE"
               /\ tokens # << >> => tokens[Len(tokens)].type = "NEWLINE"
               \* MOD: three words, 12 bytes, in pass 2 and in the label addresses of pass 1
               /\ stage = "done" =>
                      \A k \in 1..Len(ir) : ir[k].op = "MOD" =>
                          /\ \A m \in 1..3 : trace[start(k) + m].n = 4
                                             /\ trace[start(k) + m].pc
                                                  = trace[start(k) + 1].pc + 4 * (m - 1)
                          /\ \A d \in (start(k) + 4)..Len(lines) :
                                 (isLabelOnly(lines[d])
                                  /\ \A j \in 1..start(k) : ~isLabelOnly(lines[j]))
                                     => table_[labelName(lines[d][1].lexeme)]
                                          >= trace[start(k) + 1].pc + 12
               /\ (stage = "done" /\ input = AllOpsProgram)
                      => /\ diag = <<"top 0", "mid 28">>
                         /\ SubSeq(out, 17, 28) = <<164, 12, 198, 154, 132, 124, 6, 155,
                                                    164, 96, 36, 203>>

\* the program with every IR op has been lowered and assembled: the label after
\* the MOD lies 12 bytes after the MOD's first word at 16
C19_Witness ==
    /\ mode = "HIGH" /\ stage = "done" /\ exit = 0 /\ input = AllOpsProgram
    /\ Len(ir) = 14 /\ Len(lines) = 16 /\ ir[6].op = "MOD"
    /\ table_["mid"] = 28 /\ Len(out) = 60

\* C20: for every instruction statement, tokens left over after its operand
\* pattern is fully matched are a fatal error, and a statement that ends
\* before its pattern is fully matched is a fatal error; in both cases no word
\* is emitted for that statement.
C20_TokenCount ==
    (mode \in {"RAW", "HIGH", "TOKENIZED"} /\ stage = "done" /\ lines # << >>)
        => LET cond(k)   == /\ lines[k][1].lexeme = "b" /\ Len(lines[k]) > 1
                            /\ lines[k][2].type = "DOTID"
               isInstr(k) == /\ lines[k][1].type = "ID"
                             /\ lines[k][1].lexeme \in DOMAIN patterns
                             /\ cond(k) => lines[k][2].lexeme \in DOMAIN condCodes
               first(k)  == IF cond(k) THEN 3 ELSE 2
               pat(k)    == IF cond(k) THEN "j" ELSE patterns[lines[k][1].lexeme]
               need(k)   == first(k) + Len(pat(k)) - 1
               name(k)   == IF cond(k) THEN "b.cond" ELSE lines[k][1].lexeme
               \* pass 1 ended and pass 2 stopped at statement k
               reached(k) == /\ Len(order_) = Cardinality({j \in 1..Len(lines) :
                                                              isLabelOnly(lines[j])})
                             /\ Len(trace) = k - 1
               before(k) == IF k = 1 THEN 0 ELSE trace[k - 1].at + trace[k - 1].n
               accepted(k, j) == operand(Ch(pat(k), j - first(k) + 1), lines[k][j],
                                         pc, table_).ok
           IN  \A k \in 1..Len(lines) : isInstr(k) =>
                   /\ Len(lines[k]) # need(k) =>
                          /\ exit = 1
                          /\ \A e \in 1..Len(trace) : trace[e].li # k
                   /\ (/\ Len(lines[k]) > need(k) /\ reached(k)
                       /\ pass2Line(SubSeq(lines[k], 1, need(k)), pc, table_).kind = "emit")
                          => /\ diag = <<"ERROR: Extra tokens after " \o name(k)>>
                             /\ Len(out) = before(k)
                   /\ (/\ Len(lines[k]) < need(k) /\ reached(k)
                       /\ \A j \in first(k)..Len(lines[k]) : accepted(k, j))
                          => /\ diag = <<"ERROR: Too few operands for " \o name(k)>>
                             /\ Len(out) = before(k)

\* br x30 x1 after an emitted add: the pattern r is matched by x30, x1 is left
\* over, and the output still ends with the add
C20_Witness ==
    /\ mode = "RAW" /\ stage = "done" /\ input = <<"add x1, x2, x3", "br x30 x1">>
    /\ exit = 1 /\ diag = <<"ERROR: Extra tokens after br">> /\ out = <<65, 96, 35, 139>>

\* C21: when a statement starts with ID b followed by a DOTID, the DOTID is
\* consumed as a condition: a suffix of the 10-entry table gives its value as
\* the condition and the j operand as the offset of a b.cond word; a DOTID not
\* in the table is a fatal error; so the condition field of every emitted
\* b.cond word is one of 0, 1, 2, 3, 8, 9, 10, 11, 12, 13.
C21_CondSlot ==
    (mode \in {"RAW", "HIGH", "TOKENIZED"} /\ stage \in {"pass2", "done"})
        => LET isCond(k) == /\ lines[k][1].type = "ID" /\ lines[k][1].lexeme = "b"
                            /\ Len(lines[k]) > 1 /\ lines[k][2].type = "DOTID"
               value(s) == CASE s = ".eq" -> 0 [] s = ".ne" -> 1 [] s = ".hs" -> 2
                             [] s = ".lo" -> 3 [] s = ".hi" -> 8 [] s = ".ls" -> 9
                             [] s = ".ge" -> 10 [] s = ".lt" -> 11 [] s = ".gt" -> 12
                             [] s = ".le" -> 13 [] OTHER -> -1
               \* the byte offset the j operand of statement k stands for
               offset(k, pcv) == IF lines[k][3].type = "ID"
                                 THEN table_[lines[k][3].lexeme] - pcv
                                 ELSE readImm(lines[k][3].lexeme).val
           IN  /\ \A e \in 1..Len(trace) :
                    LET k == trace[e].li
                        w == WordAt(out, trace[e].at)
                    IN  /\ (isCond(k) /\ trace[e].n = 4) =>
                               /\ value(lines[k][2].lexeme) >= 0
                               /\ BitsVal(w, 0, 4) = value(lines[k][2].lexeme)
                               /\ BitsVal(w, 24, 31) = 84
                               /\ 4 * SignedField("b.cond", w) = offset(k, trace[e].pc)
                        /\ (trace[e].n = 4 /\ BitsVal(w, 24, 31) = 84) =>
                               /\ isCond(k)
                               /\ BitsVal(w, 0, 4) \in {0, 1, 2, 3, 8, 9, 10, 11, 12, 13}
                        /\ isCond(k) => trace[e].n = 4
               /\ \A k \in 1..Len(lines) :
                    (isCond(k) /\ value(lines[k][2].lexeme) < 0) =>
                        /\ \A e \in 1..Len(trace) : trace[e].li # k
                        /\ stage = "done" => exit = 1
                        /\ (stage = "done" /\ Len(trace) = k - 1)
                               => diag = <<"ERROR: Invalid condition: " \o lines[k][2].lexeme>>

\* the ten suffixes have been assembled, each branching back to L at 0: the last
\* word is b.le with condition 13 and word offset -10
C21_Witness ==
    /\ mode = "RAW" /\ stage = "done" /\ exit = 0 /\ Len(lines) = 11
    /\ lines[11][2].lexeme = ".le"
    /\ SubSeq(out, 17, 20) = <<136, 255, 255, 84>>
    /\ SubSeq(out, 37, 40) = <<237, 254, 255, 84>>

\* C22: a .8byte V statement emits exactly 8 bytes, little-endian, and advances
\* the PC by 8: the address lookup(V) when V is an ID token, the 64-bit
\* unsigned value of the literal (0x-prefixed hex or decimal) when V is INT or
\* HEXINT; a .8byte statement with no operand is a fatal error (as stated).
C22_Data8 ==
    (mode \in {"RAW", "HIGH", "TOKENIZED"} /\ stage \in {"pass2", "done"})
        => LET le(v) == <<v % 256, (v \div 256) % 256, (v \div 65536) % 256,
                          (v \div 16777216) % 256, 0, 0, 0, 0>>
               \* an unsigned literal of at most 7 digits: its value is an int
               short(s) == Len(s) <= 7 /\ AllDigits(s, 1)
               hex(s)   == Len(s) <= 9 /\ SubSeq(s, 1, 2) \in {"0x", "0X"}
           IN  /\ \A e \in 1..Len(trace) :
                    LET k == trace[e].li
                        v == lines[k][2]
                        bytes == SubSeq(out, trace[e].at + 1, trace[e].at + 8)
                    IN  is8byte(lines[k]) =>
                          /\ trace[e].n = 8
                          /\ e < Len(trace) => trace[e + 1].pc = trace[e].pc + 8
                          /\ v.type = "ID" => bytes = le(table_[v.lexeme])
                          /\ (v.type = "HEXINT" /\ hex(v.lexeme))
                                => bytes = le(stoi(v.lexeme, 16).val)
                          /\ (v.type = "INT" /\ short(v.lexeme))
                                => bytes = le(stoi(v.lexeme, 10).val)
               /\ \A k \in 1..Len(lines) :
                    (is8byte(lines[k]) /\ Len(lines[k]) = 1) =>
                        /\ \A e \in 1..Len(trace) : trace[e].li # k
                        /\ stage = "done" => exit = 1
                        /\ (stage = "done" /\ Len(trace) = k - 1)
                               => diag = <<"ERROR: Missing operand for .8byte">>

\* .8byte 010 has been assembled: the decimal literal 010 was emitted as 8
C22_Witness ==
    /\ mode = "RAW" /\ stage = "done" /\ exit = 0 /\ Len(out) = 32
    /\ input = <<".8byte 010", ".8byte 0x1F0", "L:", ".8byte 300", ".8byte L">>
    /\ lines[1][2] = Tok("INT", "010")
    /\ SubSeq(out, 1, 8) = <<8, 0, 0, 0, 0, 0, 0, 0>>
    /\ SubSeq(out, 17, 24) = <<44, 1, 0, 0, 0, 0, 0, 0>>

\* C23: every immediate operand token that IR codegen emits is classified by
\* its lexeme: HEXINT if the lexeme starts with 0x or 0X, INT if it is a signed
\* decimal number, ID (label reference) otherwise; for the LOAD/STORE offset
\* as well as for branch targets and DATA8 values (as stated).
C23_ImmediateClass ==
    (mode = "HIGH" /\ stage \in {"pass1", "pass2"})
        => LET class(s) == IF Len(s) > 2 /\ SubSeq(s, 1, 2) \in {"0x", "0X"} THEN "HEXINT"
                           ELSE IF isInteger(s) THEN "INT" ELSE "ID"
               \* the position of the immediate operand in statement k, 0 if it has none
               at(k) == IF is8byte(lines[k]) THEN 2
                        ELSE IF lines[k][1].type # "ID" THEN 0
                        ELSE IF lines[k][1].lexeme \in {"ldur", "stur"} THEN 7
                        ELSE IF lines[k][1].lexeme = "b"
                             THEN (IF lines[k][2].type = "DOTID" THEN 3 ELSE 2)
                        ELSE 0
           IN  \A k \in 1..Len(lines) :
                   at(k) # 0 => /\ Len(lines[k]) >= at(k)
                                /\ lines[k][at(k)].type = class(lines[k][at(k)].lexeme)

\* the load with offset 0x10 has been lowered and assembled: its offset token
\* is typed INT
C23_Witness ==
    /\ mode = "HIGH" /\ stage = "done" /\ exit = 0 /\ input = <<"x1 = *(x2 + 0x10)">>
    /\ lines = << <<Tok("ID", "ldur"), Tok("REG", "x1"), Tok("COMMA", ","), Tok("LBRACK", "["),
                    Tok("REG", "x2"), Tok("COMMA", ","), Tok("INT", "0x10"),
                    Tok("RBRACK", "]")>> >>
    /\ out = <<65, 0, 65, 248>>

\* C24: a pseudocode if statement whose operator is not one of ==, !=, <, <=,
\* >, >= makes the run fail with a fatal error, both when the program is
\* assembled and when only the IR is dumped with --high --dump-ir (as stated).
C24_UnknownOperatorFatal ==
    (mode = "HIGH" /\ stage = "done" /\ diag # usageLines)
        => \A k \in 1..Len(input) :
               LET words == split(strip(input[k]))
               IN  (/\ Len(words) >= 6 /\ words[1] = "if" /\ words[5] = "goto"
                    /\ words[3] \notin {"==", "!=", "<", "<=", ">", ">="})
                       => /\ exit = 1
                          /\ Len(diag) = 1 /\ SubSeq(diag[1], 1, 7) = "ERROR: "
                          /\ out = << >>

\* with --dump-ir the if with operator ~ was parsed and dumped, and the run
\* ended with status 0
C24_Witness ==
    /\ mode = "HIGH" /\ dumpIRFlag /\ stage = "done" /\ exit = 0
    /\ input = <<"label L", "x1 = x2", "if x1 ~ x2 goto L">>
    /\ diag = <<"L:", "  MOV x1, x2", "  CMP_BRANCH x1 ~ x2, L">>

\* C25: the statements are the maximal runs of tokens other than NEWLINE, in
\* order (none empty, a last run without a final NEWLINE kept); hence a token
\* vector that differs by a NEWLINE inserted or removed next to a NEWLINE, or
\* by the final NEWLINE appended or dropped, has the same statements, the same
\* bytes and the same label addresses as the run's own.
C25_LineGrouping ==
    LET n       == Len(tokens)
        isNL(i) == tokens[i].type = "NEWLINE"
        starts  == {i \in 1..n : ~isNL(i) /\ (i = 1 \/ isNL(i - 1))}
        endOf(s) == CHOOSE e \in s..n :
                       /\ \A j \in s..e : ~isNL(j)
                       /\ (e = n \/ isNL(e + 1))
        kth(k)  == CHOOSE s \in starts : Cardinality({t \in starts : t < s}) = k - 1
        runs    == [k \in 1..Cardinality(starts) |-> SubSeq(tokens, kth(k), endOf(kth(k)))]
        variants ==
            {SubSeq(tokens, 1, i) \o << NL >> \o SubSeq(tokens, i + 1, n) :
                i \in {j \in 1..n : isNL(j)}}
            \cup {SubSeq(tokens, 1, i - 1) \o SubSeq(tokens, i + 1, n) :
                i \in {j \in 1..n : isNL(j) /\ ((j > 1 /\ isNL(j - 1)) \/ (j < n /\ isNL(j + 1)))}}
            \cup {tokens \o << NL >>}
            \cup (IF n > 0 /\ isNL(n) THEN {SubSeq(tokens, 1, n - 1)} ELSE {})
    IN  /\ stage \in {"pass1", "pass2"} => lines = runs
        /\ stage = "pass1" /\ li = 1 =>
              \A v \in variants :
                 /\ groupLines(v) = lines
                 /\ Assembler_assemble(v) = Assembler_assemble(tokens)
                 /\ pass1(groupLines(v), 1, 0, EmptyTable, << >>)
                      = pass1(lines, 1, 0, EmptyTable, << >>)
        /\ stage = "done" /\ tokens # << >> =>
              \A v \in variants :
                 /\ Assembler_assemble(v).out = out
                 /\ Assembler_assemble(v).ok = (exit = 0)
                 /\ exit = 0 => pass1(groupLines(v), 1, 0, EmptyTable, << >>).table = table_

\* a label line and a last statement that no NEWLINE ends
C25_Witness ==
    /\ mode = "TOKENIZED" /\ stage = "done" /\ exit = 0
    /\ input = <<"LABEL", "L:", "NEWLINE", "ID", "br", "REG", "x30">>
    /\ Len(lines) = 2
    /\ out = <<192, 3, 31, 214>>
    /\ table_["L"] = 0

\* C26: the bytes written for a value are its bytes from the least significant
\* to the most significant one (four for emit32le, eight for emit64le), and
\* putting the written bytes together in little-endian order gives the value.
C26_LittleEndian ==
    (mode = "UNIT" /\ stage = "done" /\ call.fn \in {"emit32le", "emit64le"}) =>
       LET h  == call.s
           nb == Len(h) \div 2
           byteOf(i) == 16 * DigitVal(Ch(h, Len(h) - 2 * i - 1)) + DigitVal(Ch(h, Len(h) - 2 * i))
       IN  /\ nb = (IF call.fn = "emit32le" THEN 4 ELSE 8)
           /\ Len(out) = nb
           /\ \A i \in 0..(nb - 1) : out[i + 1] = byteOf(i)
           /\ call.fn = "emit32le" => WordAt(out, 0) = U32Hex(h)
           /\ call.fn = "emit64le" =>
                 [k \in 0..3 |-> out[2 * k + 1] + 256 * out[2 * k + 2]] = stoull0("0x" \o h).val

\* the word of br x30, 0xD61F03C0, is written as C0 03 1F D6
C26_Witness ==
    /\ mode = "UNIT" /\ stage = "done" /\ call.fn = "emit32le"
    /\ call.s = "D61F03C0"
    /\ out = <<192, 3, 31, 214>>

\* C27: for every MOD instruction of the IR whose three registers are xN
\* registers, the three statements the lowering emits for it (the statements of
\* the run at its place), executed in order on any register state with src2
\* non-zero, leave src1 - (src1 / src2) * src2 of the original values in dst;
\* sdiv, mul and sub write to their first operand the quotient rounded towards
\* zero, the product and the difference of the other two.
C27_ModSemantics ==
    (mode = "HIGH" /\ stage = "pass1" /\ li = 1) =>
       \A k \in 1..Len(ir) :
          (ir[k].op = "MOD" /\ \A x \in {ir[k].dst, ir[k].src1, ir[k].src2} :
                                   regToken(x).ok /\ regToken(x).toks[1].type = "REG") =>
             LET first == Len(groupLines(IRCodeGen_lower(SubSeq(ir, 1, k - 1)).toks))
                 regs  == {ir[k].dst, ir[k].src1, ir[k].src2}
                 abs(a) == IF a < 0 THEN -a ELSE a
                 quot(a, b) == IF (a < 0) = (b < 0) THEN abs(a) \div abs(b)
                               ELSE -(abs(a) \div abs(b))
                 val(m, a, b) ==
                     CASE m = "sdiv" -> IF b = 0 THEN 0 ELSE quot(a, b)
                       [] m = "mul"  -> a * b
                       [] m = "sub"  -> a - b
                 exec(r, st) ==
                     [r EXCEPT ![st[2].lexeme] = val(st[1].lexeme, r[st[4].lexeme], r[st[6].lexeme])]
             IN  /\ Len(lines) >= first + 3
                 /\ \A r \in [regs -> -4..4] :
                       r[ir[k].src2] # 0 =>
                          exec(exec(exec(r, lines[first + 1]), lines[first + 2]),
                               lines[first + 3])[ir[k].dst]
                            = r[ir[k].src1] - quot(r[ir[k].src1], r[ir[k].src2]) * r[ir[k].src2]

\* x4 = x4 % x6 is assembled as sdiv x4, x4, x6; mul x4, x4, x6; sub x4, x4, x4
C27_Witness ==
    /\ mode = "HIGH" /\ stage = "done" /\ exit = 0
    /\ input = <<"x4 = x4 % x6">>
    /\ lines = groupLines(RawAsmLexer_lex(<<"sdiv x4, x4, x6", "mul x4, x4, x6", "sub x4, x4, x4">>))
    /\ out = <<132, 12, 198, 154, 132, 124, 6, 155, 132, 96, 36, 203>>

\* C28: a pseudocode program made only of statements D = X and D = A op B (op
\* one of + - * / %) whose operands are xzr, sp or xN with N in 0..30 assembles
\* without error, every lowered statement giving one word; the word of D = X is
\* the add word with Rd = reg(D), Rn = reg(X) and Rm = 31.
C28_RegisterStatementsAssemble ==
    LET valid == {"xzr", "sp"} \cup {"x" \o Dec(n) : n \in 0..30}
        operands(i) == IF i.op = "MOV" THEN {i.dst, i.src1} ELSE {i.dst, i.src1, i.src2}
    IN  (/\ mode = "HIGH" /\ stage = "done" /\ ir # << >>
         /\ \A k \in 1..Len(ir) :
               /\ ir[k].op \in {"ADD", "SUB", "MUL", "DIV", "MOD", "MOV"}
               /\ operands(ir[k]) \subseteq valid
               /\ \A x \in operands(ir[k]) : isReg(x)) =>
           /\ exit = 0
           /\ diag = << >>
           /\ Len(out) = 4 * Len(lines)
           /\ \A k \in 1..Len(ir) :
                 ir[k].op = "MOV" =>
                    LET at == 4 * Len(groupLines(IRCodeGen_lower(SubSeq(ir, 1, k - 1)).toks))
                        w  == WordAt(out, at)
                    IN  /\ w = encode("add", readReg(ir[k].dst).val, readReg(ir[k].src1).val, 31).w
                        /\ BitsVal(w, 0, 4) = readReg(ir[k].dst).val
                        /\ BitsVal(w, 5, 9) = readReg(ir[k].src1).val
                        /\ BitsVal(w, 16, 20) = 31

\* x1 = xzr is parsed and lowered to add x1, xzr, xzr, which the assembler rejects
C28_Witness ==
    /\ mode = "HIGH" /\ stage = "done" /\ input = <<"x1 = xzr">>
    /\ ir = <<IR("MOV", "x1", "xzr", "", "", "", "")>>
    /\ lines = << <<Tok("ID", "add"), Tok("REG", "x1"), Tok("COMMA", ","), Tok("ZREG", "xzr"),
                    Tok("COMMA", ","), Tok("ZREG", "xzr")>> >>
    /\ exit = 1 /\ out = << >>
    /\ diag = <<"ERROR: Expected register or sp">>

\* C29: a run that enters the assembler and has a label defined by two label
\* lines fails with no byte written; any other failing run of the assembler
\* stops at a statement k that pass 2 rejects, and the output is exactly the
\* bytes pass 2 writes for statements 1..k-1, none of statement k or later.
C29_OutputBeforeFailure ==
    LET dup == \E i \in 1..Len(lines), j \in 1..Len(lines) :
                  /\ i < j /\ isLabelOnly(lines[i]) /\ isLabelOnly(lines[j])
                  /\ labelName(lines[i][1].lexeme) = labelName(lines[j][1].lexeme)
        before == pass2(SubSeq(lines, 1, li - 1), 1, 0, table_, << >>)
    IN  /\ (stage = "done" /\ lines # << >> /\ dup) =>
              /\ exit = 1
              /\ out = << >>
              /\ trace = << >>
              /\ Len(diag) = 1 /\ SubSeq(diag[1], 1, 23) = "ERROR: Duplicate label:"
        /\ (stage = "done" /\ lines # << >> /\ exit = 1 /\ ~dup) =>
              /\ li \in 1..Len(lines)
              /\ pass2Line(lines[li], pc, table_).kind = "throw"
              /\ diag = <<"ERROR: " \o pass2Line(lines[li], pc, table_).err>>
              /\ before.ok
              /\ out = before.out
              /\ Len(trace) = li - 1
              /\ \A j \in 1..(li - 1) :
                    /\ trace[j].li = j
                    /\ trace[j].at + trace[j].n = (IF j = li - 1 THEN Len(out) ELSE trace[j + 1].at)
        /\ (stage = "done" /\ exit = 1 /\ lines = << >>) => out = << >>

\* the third statement refers to an undefined label: the word of b L and the
\* eight bytes of .8byte 7 are written, nothing of the statements after them
C29_Witness ==
    /\ mode = "RAW" /\ stage = "done" /\ exit = 1
    /\ input = <<"b L", ".8byte 7", "ldr x1, M", "L:", "add x1, x2, x3">>
    /\ li = 3
    /\ out = <<4, 0, 0, 20, 7, 0, 0, 0, 0, 0, 0, 0>>
    /\ diag = <<"ERROR: Undefined label: M">>

\* C30: with the statement lines of a pseudocode text being its lines that are
\* neither blank nor have # as first non-blank character, a parse that succeeds
\* yields one IR instruction per statement line, the k-th instruction being the
\* one of the k-th statement line; a parse that fails does so at the first
\* statement line that has no instruction, with one ERROR line; and parsing the
\* text again yields the IR of the run.
C30_OneInstructionPerStatement ==
    (mode = "HIGH" /\ stage # "start" /\ diag # usageLines) =>
       LET isStmt(i) == /\ SkipSpace(input[i], 1) <= Len(input[i])
                        /\ Ch(input[i], SkipSpace(input[i], 1)) # "#"
           stmts     == {i \in 1..Len(input) : isStmt(i)}
           kth(k)    == CHOOSE i \in stmts : Cardinality({j \in stmts : j < i}) = k - 1
           one(i)    == parseLine(strip(input[i]))
           bad       == {i \in stmts : ~one(i).ok}
           again     == HighLevelParser_parse(input)
       IN  /\ \A i \in stmts : ~one(i).ok \/ Len(one(i).ir) = 1
           /\ bad = {} =>
                 /\ Len(ir) = Cardinality(stmts)
                 /\ \A k \in 1..Len(ir) : << ir[k] >> = one(kth(k)).ir
                 /\ again.ok /\ again.ir = ir
           /\ bad # {} =>
                 /\ stage = "done" /\ exit = 1 /\ ir = << >> /\ out = << >>
                 /\ ~again.ok
                 /\ diag = <<"ERROR: " \o one(CHOOSE i \in bad : \A j \in bad : i <= j).err>>

\* eight lines, four of them statements, parsed to four instructions in order
C30_Witness ==
    /\ mode = "HIGH" /\ stage = "parsed"
    /\ input = <<"", "   # c", "x1 = x2", " ", "#x", " ret ", "  label L", "goto L  ">>
    /\ ir = <<IR("MOV", "x1", "x2", "", "", "", ""), IR("RET", "", "", "", "", "", ""),
              IR("LABEL", "L", "", "", "", "", ""), IR("BRANCH", "", "", "", "L", "", "")>>

====
